---------------------------- MODULE Spec2Model ----------------------------
(***************************************************************************)
(* Model of the key-value stores of xk6-kv (package kv/store).             *)
(*                                                                         *)
(* DiskStore (kv/store/disk.go) is modelled at the granularity of its      *)
(* atomic operations: every opened.Load / opened.Store / refCount.Add and  *)
(* every acquisition of DiskStore.lock is a step of its own, so that the   *)
(* goroutines calling Get/Set/Delete/Exists/Clear/Size/List/Close          *)
(* interleave exactly where the Go memory model lets them.                 *)
(*                                                                         *)
(* The bbolt engine is an external library; it is modelled by what the     *)
(* store relies on: a DB object is open or not, a transaction on a DB that *)
(* is not open fails (ErrDatabaseNotOpen), bolt.Open takes the file lock   *)
(* (it waits while another DB object holds the file), a bucket keeps its   *)
(* keys in byte order, and the file content survives Close.                *)
(*                                                                         *)
(* MemoryStore (kv/store/memory.go) is modelled twice: as the functions    *)
(* its methods compute under the lock, called in step with the DiskStore   *)
(* by a sequential caller, and with the steps of its RWMutex for callers   *)
(* that run concurrently. SerializedStore (kv/store/serialized_store.go)   *)
(* and the two serializers are modelled on bytes: JSON text and printed    *)
(* text are written and read back character by character.                  *)
(*                                                                         *)
(* The JS module (kv/module.go, kv/kv.go) is modelled with one step for    *)
(* each access of OpenKv to RootModule.store, which the VUs share without  *)
(* a lock, and one step for each call on a KV instance.                    *)
(***************************************************************************)
EXTENDS Integers, Sequences, FiniteSets, TLC

VARIABLES
    opened,     \* DiskStore.opened (atomic.Bool)
    refCount,   \* DiskStore.refCount (atomic.Int64)
    lock,       \* DiskStore.lock: 0 when free, else the goroutine holding it
    handle,     \* state of the bolt.DB that DiskStore.handle points to
    bucket,     \* TRUE when the file holds the bucket named DiskStore.bucket
    data,       \* content of that bucket in the file: key -> bytes or NoVal
    pc,         \* per goroutine: the line of disk.go it is about to execute
    op,         \* per goroutine: the call it is executing
    res,        \* per goroutine: what its last finished call returned
    nOps,       \* history: Get/Set/Delete/Exists/Clear/Size/List calls started
    nClose,     \* history: Close calls started
    nOpened,    \* history: calls of open() that returned nil
    nPhysOpen,  \* history: bolt.Open calls that returned a DB
    log,        \* kept by the sequential caller: how each of its calls returned
    want,       \* kept by the sequential caller: per key, the bytes of its last
                \* successful Set, NoVal after a successful Delete or Clear
    mwant,      \* the same notes, kept for the calls made on the MemoryStore
    container,  \* MemoryStore.container: key -> bytes or NoVal
    mres,       \* what the last call on the MemoryStore returned
    serializer, \* SerializedStore.serializer: "json" or "string"
    scall,      \* the last call on the SerializedStore, with what it returned
    sent,       \* history: per key, the value given to the last successful
                \* SerializedStore.Set and the serializer bound then
    mu,         \* MemoryStore.mu: the goroutine holding the write lock (or 0)
                \* and the goroutines holding the read lock
    scan,       \* per goroutine: the sorted keys its List has collected
    linear,     \* history: the container as the calls that passed their
                \* linearization point, taken one by one, leave it
    expect,     \* history: per goroutine, what its call returns when it is
                \* made alone at its linearization point
    wrote,      \* history: the <<key, bytes>> pairs given to the Set calls made
    rmStore,    \* RootModule.store: 0 for nil, else the store it points to
    stores,     \* the stores that OpenKv constructed, named by the VU that did
    kvs,        \* per VU: ModuleInstance.kv, the KV instance OpenKv gave it
    opts,       \* per VU: the options given to its last call of openKv
    leaked,     \* bolt.DB objects that hold the file open while no field of
                \* the DiskStore points to them
    promise,    \* per VU: how often the resolve and the reject function of
                \* the promise of its current KV call were called
    seen        \* per VU: the value of RootModule.store that its current call
                \* of OpenKv read in its nil check

shared == <<opened, refCount, lock, handle>>
file   == <<bucket, data>>
procs  == <<pc, op, res>>
hist   == <<nOps, nClose, nOpened, nPhysOpen>>
caller == <<log, want, mwant>>
mem    == <<container, mres>>
wrapped == <<serializer, scall, sent>>
memsync == <<mu, scan, linear, expect, wrote>>
jsmod  == <<rmStore, stores, kvs, opts>>
late   == <<leaked, promise, seen>>
vars   == <<opened, refCount, lock, handle, bucket, data, pc, op, res,
            nOps, nClose, nOpened, nPhysOpen, log, want, mwant, container, mres,
            serializer, scall, sent, mu, scan, linear, expect, wrote,
            rmStore, stores, kvs, opts, leaked, promise, seen>>

----------------------------------------------------------------------------
(* Bounds of the model. *)

\* goroutines that call the store concurrently
NumThreads == 2
\* calls issued in one behaviour of the concurrent specification
MaxCalls == 3
\* calls issued in one behaviour of the sequential specification
MaxSeqCalls == 5
\* calls issued in one behaviour of the goroutines sharing a MemoryStore
MaxMemCalls == 3

Threads == 1..NumThreads

----------------------------------------------------------------------------
(* Keys, values, entries. *)

\* A key is a byte string; bytes are small integers here.
ShortKeys == {<<1>>, <<1, 1>>, <<2>>}
\* bolt.MaxKeySize: the longest key, in bytes, that bucket.Put accepts.
MaxKeySize == 32768
\* A key of MaxKeySize + 1 bytes; its content is written as one byte.
LongKey == <<3>>
\* len(key)
KeySize(k) == IF k = LongKey THEN MaxKeySize + 1 ELSE Len(k)
Keys == ShortKeys \cup {LongKey}
\* Payloads of values: the empty one and a byte.
Payloads == {<<>>, <<7>>}
\* No entry under a key: not a byte string (bytes are >= 0).
NoVal == <<-1>>
\* A nil result.
Nil == <<>>

\* The dynamic type of the `value any` argument of Set, with its payload.
BytesValue(p)  == [type |-> "bytes",  payload |-> p]
StringValue(p) == [type |-> "string", payload |-> p]
OtherValue(p)  == [type |-> "other",  payload |-> p]
NilValue       == [type |-> "nil",    payload |-> <<>>]

\* disk.go 122-130: the type switch of Set.
Supported(v) == v.type \in {"bytes", "string"}
\* []byte(v) of a string is the string's bytes; a []byte is taken as it is.
ValueBytes(v) == v.payload

\* strings.HasPrefix
HasPrefix(k, p) ==
    /\ Len(p) <= Len(k)
    /\ \A i \in 1..Len(p) : k[i] = p[i]

\* bytes.Compare(a, b) < 0: the order in which a bolt bucket keeps its keys.
RECURSIVE KeyLess(_, _)
KeyLess(a, b) ==
    IF a = <<>> THEN b # <<>>
    ELSE IF b = <<>> THEN FALSE
    ELSE IF Head(a) # Head(b) THEN Head(a) < Head(b)
    ELSE KeyLess(Tail(a), Tail(b))

MinKey(S) == CHOOSE k \in S : \A j \in S : j = k \/ KeyLess(k, j)

\* The keys of S in ascending byte order: what Cursor.First/Next walks.
RECURSIVE Ascending(_)
Ascending(S) ==
    IF S = {} THEN <<>>
    ELSE <<MinKey(S)>> \o Ascending(S \ {MinKey(S)})

LiveKeys(d) == {k \in DOMAIN d : d[k] # NoVal}

EmptyData == [k \in Keys |-> NoVal]

----------------------------------------------------------------------------
(* The calls and their results. *)

GetOp(k)      == [kind |-> "Get",    key |-> k,    val |-> NilValue, limit |-> 0]
SetOp(k, v)   == [kind |-> "Set",    key |-> k,    val |-> v,   limit |-> 0]
DeleteOp(k)   == [kind |-> "Delete", key |-> k,    val |-> NilValue, limit |-> 0]
ExistsOp(k)   == [kind |-> "Exists", key |-> k,    val |-> NilValue, limit |-> 0]
ClearOp       == [kind |-> "Clear",  key |-> <<>>, val |-> NilValue, limit |-> 0]
SizeOp        == [kind |-> "Size",   key |-> <<>>, val |-> NilValue, limit |-> 0]
\* List(prefix, limit): the prefix is carried in the key field.
ListOp(p, l)  == [kind |-> "List",   key |-> p,    val |-> NilValue, limit |-> l]
CloseOp       == [kind |-> "Close",  key |-> <<>>, val |-> NilValue, limit |-> 0]
NoOp          == [kind |-> "none",   key |-> <<>>, val |-> NilValue, limit |-> 0]

\* What a call returned: err is "" for a nil error.
Result(kind, err, val) == [kind |-> kind, err |-> err, val |-> val]
NoResult == Result("none", "", Nil)

\* The loop of List over the cursor (disk.go 259-278): ks is what is left of
\* the walk, count the entries appended so far.
RECURSIVE CursorWalk(_, _, _, _, _)
CursorWalk(ks, d, prefix, limit, count) ==
    IF ks = <<>> THEN <<>>
    ELSE IF prefix # <<>> /\ ~HasPrefix(Head(ks), prefix)
         THEN CursorWalk(Tail(ks), d, prefix, limit, count)
    ELSE IF limit > 0 /\ count >= limit THEN <<>>
    ELSE <<[Key |-> Head(ks), Value |-> d[Head(ks)]]>>
            \o CursorWalk(Tail(ks), d, prefix, limit, count + 1)

\* The transaction each operation of DiskStore runs on an open DB, given
\* whether tx.Bucket(s.bucket) is there and the bucket's content d.
\* Gives the call's result and the content the transaction leaves. The
\* bytes Get and List return are the bytes the bucket holds when the
\* transaction runs (the slices point into the file's pages and are not
\* copied: they are these bytes when the call returns).
DiskTxn(o, hasBucket, d) ==
    IF ~hasBucket
    THEN [res |-> Result(o.kind, "bucket not found", Nil), data |-> d]
    ELSE CASE o.kind = "Get" ->
                IF o.key \in LiveKeys(d)
                THEN [res |-> Result("Get", "", d[o.key]), data |-> d]
                ELSE [res |-> Result("Get", "key not found", Nil), data |-> d]
           [] o.kind = "Set" ->
                \* bucket.Put refuses an empty key (ErrKeyRequired) and a key
                \* of more than MaxKeySize bytes (ErrKeyTooLarge)
                IF o.key = <<>>
                THEN [res |-> Result("Set", "key required", Nil), data |-> d]
                ELSE IF KeySize(o.key) > MaxKeySize
                THEN [res |-> Result("Set", "key too large", Nil), data |-> d]
                ELSE [res |-> Result("Set", "",  Nil),
                      data |-> [k \in DOMAIN d \cup {o.key} |->
                                  IF k = o.key THEN ValueBytes(o.val) ELSE d[k]]]
           [] o.kind = "Delete" ->
                [res |-> Result("Delete", "", Nil),
                 data |-> [k \in DOMAIN d |-> IF k = o.key THEN NoVal ELSE d[k]]]
           [] o.kind = "Exists" ->
                [res |-> Result("Exists", "", o.key \in LiveKeys(d)), data |-> d]
           [] o.kind = "Clear" ->
                \* bucket.ForEach walks the pages as the transaction found
                \* them, so the Delete of each key it visits hides no key
                \* from the walk
                [res |-> Result("Clear", "", Nil),
                 data |-> [k \in DOMAIN d |-> NoVal]]
           [] o.kind = "Size" ->
                [res |-> Result("Size", "", Cardinality(LiveKeys(d))), data |-> d]
           [] o.kind = "List" ->
                [res |-> Result("List", "",
                            CursorWalk(Ascending(LiveKeys(d)), d, o.key, o.limit, 0)),
                 data |-> d]

----------------------------------------------------------------------------
(* MemoryStore (kv/store/memory.go). Each method runs under the store's    *)
(* RWMutex from its first statement to its return; a method is given here  *)
(* by its result and the container it leaves.                              *)

\* MemGet without the check of ok: the zero value of an absent key is returned.
MemGetNoPresenceCheck(c, k) ==
    IF k \in LiveKeys(c)
    THEN [res |-> Result("Get", "", c[k]), container |-> c]
    ELSE [res |-> Result("Get", "", Nil), container |-> c]

\* memory.go 25-36
MemGet(c, k) ==
    IF k \in LiveKeys(c)
    THEN [res |-> Result("Get", "", c[k]), container |-> c]
    ELSE [res |-> Result("Get", "key not found", Nil), container |-> c]

\* MemSet without the default case of the type switch: any value is stored.
MemSetAnyType(c, k, v) ==
    [res |-> Result("Set", "", Nil),
     container |-> [j \in DOMAIN c \cup {k} |-> IF j = k THEN ValueBytes(v) ELSE c[j]]]

\* memory.go 39-56
MemSet(c, k, v) ==
    IF ~Supported(v)
    THEN [res |-> Result("Set", "unsupported value type", Nil), container |-> c]
    ELSE [res |-> Result("Set", "", Nil),
          container |-> [j \in DOMAIN c \cup {k} |-> IF j = k THEN ValueBytes(v) ELSE c[j]]]

\* MemDelete that removes every key starting with k.
MemDeletePrefix(c, k) ==
    [res |-> Result("Delete", "", Nil),
     container |-> [j \in DOMAIN c |-> IF HasPrefix(j, k) THEN NoVal ELSE c[j]]]

\* memory.go 59-64
MemDelete(c, k) ==
    [res |-> Result("Delete", "", Nil),
     container |-> [j \in DOMAIN c |-> IF j = k THEN NoVal ELSE c[j]]]

\* MemExists that reads the key with an access that makes the entry.
MemExistsInserts(c, k) ==
    [res |-> Result("Exists", "", k \in LiveKeys(c)),
     container |-> [j \in DOMAIN c \cup {k} |->
                        IF j = k /\ k \notin LiveKeys(c) THEN <<>> ELSE c[j]]]

\* memory.go 67-72
MemExists(c, k) ==
    [res |-> Result("Exists", "", k \in LiveKeys(c)), container |-> c]

\* MemClear that keeps the container it has.
MemClearKeeps(c) ==
    [res |-> Result("Clear", "", Nil), container |-> c]

\* memory.go 75-80
MemClear(c) ==
    [res |-> Result("Clear", "", Nil), container |-> [j \in DOMAIN c |-> NoVal]]

\* MemSize that counts the keys whose value is not empty.
MemSizeNonEmpty(c) ==
    [res |-> Result("Size", "", Cardinality({k \in LiveKeys(c) : c[k] # <<>>})),
     container |-> c]

\* memory.go 83-87: len(s.container)
MemSize(c) ==
    [res |-> Result("Size", "", Cardinality(LiveKeys(c))), container |-> c]

\* memory.go 108-118: the loop over the sorted keys.
RECURSIVE MemTake(_, _, _, _)
MemTake(ks, c, limit, count) ==
    IF ks = <<>> THEN <<>>
    ELSE IF limit > 0 /\ count >= limit THEN <<>>
    ELSE <<[Key |-> Head(ks), Value |-> c[Head(ks)]]>>
            \o MemTake(Tail(ks), c, limit, count + 1)

\* MemList without sort.Strings: the keys are listed in map order.
MemListUnsorted(c, prefix, limit) ==
    LET keys == {k \in LiveKeys(c) : prefix = <<>> \/ HasPrefix(k, prefix)}
        \* some order of the map's range loop
        walk == CHOOSE q \in [1..Cardinality(keys) -> keys] :
                    /\ \A k \in keys : \E i \in DOMAIN q : q[i] = k
                    /\ (Cardinality(keys) >= 2 => KeyLess(q[2], q[1]))
    IN  [res |-> Result("List", "", MemTake(walk, c, limit, 0)),
         container |-> c]

\* memory.go 94-101: the keys with the prefix, then sort.Strings.
MemListKeys(c, prefix) ==
    Ascending({k \in LiveKeys(c) : prefix = <<>> \/ HasPrefix(k, prefix)})

\* memory.go 90-121
MemList(c, prefix, limit) ==
    [res |-> Result("List", "", MemTake(MemListKeys(c, prefix), c, limit, 0)),
     container |-> c]

MemCloseResult(c) ==
    [res |-> Result("Close", "", Nil), container |-> c]

MemCall(o, c) ==
    CASE o.kind = "Get"    -> MemGet(c, o.key)
      [] o.kind = "Set"    -> MemSet(c, o.key, o.val)
      [] o.kind = "Delete" -> MemDelete(c, o.key)
      [] o.kind = "Exists" -> MemExists(c, o.key)
      [] o.kind = "Clear"  -> MemClear(c)
      [] o.kind = "Size"   -> MemSize(c)
      [] o.kind = "List"   -> MemList(c, o.key, o.limit)
      [] o.kind = "Close"  -> MemCloseResult(c)

\* The call o is made on the MemoryStore.
MemApply(o) ==
    /\ container' = MemCall(o, container).container
    /\ mres' = MemCall(o, container).res

----------------------------------------------------------------------------
(* Serializers (kv/store/serializer.go). A Go value of type any is given   *)
(* by its dynamic type and content; serialized bytes are ASCII codes.      *)

GoNil        == [type |-> "nil",     num |-> 0, nan |-> FALSE, text |-> <<>>, items |-> <<>>]
GoBool(b)    == [type |-> "bool",    num |-> IF b THEN 1 ELSE 0, nan |-> FALSE,
                 text |-> <<>>, items |-> <<>>]
GoInt(n)     == [type |-> "int64",   num |-> n, nan |-> FALSE, text |-> <<>>, items |-> <<>>]
\* a float64 holding the whole number n
GoFloat(n)   == [type |-> "float64", num |-> n, nan |-> FALSE, text |-> <<>>, items |-> <<>>]
\* math.NaN()
GoNaN        == [type |-> "float64", num |-> 0, nan |-> TRUE,  text |-> <<>>, items |-> <<>>]
GoString(s)  == [type |-> "string",  num |-> 0, nan |-> FALSE, text |-> s,    items |-> <<>>]
GoBytes(p)   == [type |-> "[]byte",  num |-> 0, nan |-> FALSE, text |-> p,    items |-> <<>>]
\* a []any of values that are not slices themselves
GoSlice(xs)  == [type |-> "[]any",   num |-> 0, nan |-> FALSE, text |-> <<>>, items |-> xs]

\* What a serializer call returns: err is "" for a nil error.
Encoded(err, bytes) == [err |-> err, bytes |-> bytes]
Decoded(err, val)   == [err |-> err, val |-> val]

\* strconv: the decimal digits of n >= 0, and of any integer.
RECURSIVE Digits(_)
Digits(n) == IF n < 10 THEN <<48 + n>> ELSE Digits(n \div 10) \o <<48 + (n % 10)>>
Itoa(n) == IF n < 0 THEN <<45>> \o Digits(0 - n) ELSE Digits(n)

\* The ASCII text of the literals.
TextNull  == <<110, 117, 108, 108>>
TextTrue  == <<116, 114, 117, 101>>
TextFalse == <<102, 97, 108, 115, 101>>
TextNaN   == <<78, 97, 78>>
\* fmt's rendering of a nil interface: <nil>
TextNilV  == <<60, 110, 105, 108, 62>>

\* encoding/json: inside a string literal, a quote and a backslash are
\* written with a backslash before them.
RECURSIVE JSONEscape(_)
JSONEscape(s) ==
    IF s = <<>> THEN <<>>
    ELSE (IF Head(s) \in {34, 92} THEN <<92, Head(s)>> ELSE <<Head(s)>>)
            \o JSONEscape(Tail(s))

\* encoding/base64 StdEncoding: the character of a 6-bit group.
B64Char(i) ==
    IF i < 26 THEN 65 + i
    ELSE IF i < 52 THEN 97 + (i - 26)
    ELSE IF i < 62 THEN 48 + (i - 52)
    ELSE IF i = 62 THEN 43 ELSE 47

\* base64 of a byte slice, three bytes at a time, padded with '='.
RECURSIVE Base64(_)
Base64(p) ==
    IF p = <<>> THEN <<>>
    ELSE IF Len(p) = 1
    THEN <<B64Char(p[1] \div 4), B64Char((p[1] % 4) * 16), 61, 61>>
    ELSE IF Len(p) = 2
    THEN <<B64Char(p[1] \div 4), B64Char((p[1] % 4) * 16 + p[2] \div 16),
           B64Char((p[2] % 16) * 4), 61>>
    ELSE <<B64Char(p[1] \div 4), B64Char((p[1] % 4) * 16 + p[2] \div 16),
           B64Char((p[2] % 16) * 4 + p[3] \div 64), B64Char(p[3] % 64)>>
            \o Base64(SubSeq(p, 4, Len(p)))

\* json.Marshal of a value that is not a slice of values.
JSONMarshalScalar(v) ==
    CASE v.type = "nil"     -> Encoded("", TextNull)
      [] v.type = "bool"    -> Encoded("", IF v.num = 1 THEN TextTrue ELSE TextFalse)
      [] v.type = "int64"   -> Encoded("", Itoa(v.num))
      [] v.type = "float64" -> IF v.nan THEN Encoded("unsupported value", <<>>)
                               ELSE Encoded("", Itoa(v.num))
      [] v.type = "string"  -> Encoded("", <<34>> \o JSONEscape(v.text) \o <<34>>)
      [] v.type = "[]byte"  -> Encoded("", <<34>> \o Base64(v.text) \o <<34>>)

\* The elements of a JSON array, separated by commas.
RECURSIVE JSONMarshalItems(_)
JSONMarshalItems(xs) ==
    IF xs = <<>> THEN Encoded("", <<>>)
    ELSE LET first == JSONMarshalScalar(Head(xs))
             rest  == JSONMarshalItems(Tail(xs))
         IN  IF first.err # "" THEN first
             ELSE IF rest.err # "" THEN rest
             ELSE Encoded("", first.bytes
                              \o (IF Tail(xs) = <<>> THEN <<>> ELSE <<44>>)
                              \o rest.bytes)

\* json.Marshal
JSONMarshal(v) ==
    IF v.type = "[]any"
    THEN LET inner == JSONMarshalItems(v.items) IN
         IF inner.err # "" THEN inner
         ELSE Encoded("", <<91>> \o inner.bytes \o <<93>>)
    ELSE JSONMarshalScalar(v)

\* What the decoder read: ok, the value, and the bytes that follow it.
Parsed(ok, val, rest) == [ok |-> ok, val |-> val, rest |-> rest]
ParseFailed == Parsed(FALSE, GoNil, <<>>)

StartsWith(b, t) == Len(b) >= Len(t) /\ SubSeq(b, 1, Len(t)) = t
IsDigit(c) == c >= 48 /\ c <= 57

\* The decoder inside a string literal, after the opening quote: up to the
\* closing quote, a backslash taking the character after it. (The other
\* escapes of JSON are not written by the encoder for the texts used here.)
RECURSIVE ScanString(_, _)
ScanString(b, acc) ==
    IF b = <<>> THEN ParseFailed
    ELSE IF Head(b) = 34 THEN Parsed(TRUE, GoString(acc), Tail(b))
    ELSE IF Head(b) = 92
         THEN IF Len(b) >= 2 /\ b[2] \in {34, 92}
              THEN ScanString(SubSeq(b, 3, Len(b)), Append(acc, b[2]))
              ELSE ParseFailed
    ELSE ScanString(Tail(b), Append(acc, Head(b)))

\* The decoder inside a number: the digits read so far have the value n.
\* A number decoded into an any is a float64.
RECURSIVE ScanDigits(_, _, _)
ScanDigits(b, n, sign) ==
    IF b # <<>> /\ IsDigit(Head(b))
    THEN ScanDigits(Tail(b), 10 * n + (Head(b) - 48), sign)
    ELSE Parsed(TRUE, GoFloat(sign * n), b)

\* One JSON value that is not an array.
ParseScalar(b) ==
    IF StartsWith(b, TextNull) THEN Parsed(TRUE, GoNil, SubSeq(b, 5, Len(b)))
    ELSE IF StartsWith(b, TextTrue) THEN Parsed(TRUE, GoBool(TRUE), SubSeq(b, 5, Len(b)))
    ELSE IF StartsWith(b, TextFalse) THEN Parsed(TRUE, GoBool(FALSE), SubSeq(b, 6, Len(b)))
    ELSE IF b # <<>> /\ Head(b) = 34 THEN ScanString(Tail(b), <<>>)
    ELSE IF Len(b) >= 2 /\ Head(b) = 45 /\ IsDigit(b[2]) THEN ScanDigits(Tail(b), 0, -1)
    ELSE IF b # <<>> /\ IsDigit(Head(b)) THEN ScanDigits(b, 0, 1)
    ELSE ParseFailed

\* The elements of an array after '[' or ',': a value, then ',' or ']'.
RECURSIVE ParseItems(_, _)
ParseItems(b, acc) ==
    LET item == ParseScalar(b) IN
    IF ~item.ok \/ item.rest = <<>> THEN ParseFailed
    ELSE IF Head(item.rest) = 44
         THEN ParseItems(Tail(item.rest), Append(acc, item.val))
    ELSE IF Head(item.rest) = 93
         THEN Parsed(TRUE, GoSlice(Append(acc, item.val)), Tail(item.rest))
    ELSE ParseFailed

\* json.Unmarshal(data, &value) with value of type any: the whole input is
\* one JSON value. (White space around values, which the encoder does not
\* write, is not read here.)
JSONUnmarshal(b) ==
    LET read == IF b # <<>> /\ Head(b) = 91
                THEN IF Len(b) >= 2 /\ b[2] = 93
                     THEN Parsed(TRUE, GoSlice(<<>>), SubSeq(b, 3, Len(b)))
                     ELSE ParseItems(Tail(b), <<>>)
                ELSE ParseScalar(b)
    IN  IF read.ok /\ read.rest = <<>>
        THEN Decoded("", read.val)
        ELSE Decoded("invalid JSON", GoNil)

\* JSONSerialize that writes numbers as JSON strings.
JSONSerializeQuoted(v) ==
    IF JSONMarshal(v).err # ""
    THEN Encoded("unable to serialize value to JSON", <<>>)
    ELSE IF v.type \in {"int64", "float64"}
    THEN Encoded("", <<34>> \o JSONMarshal(v).bytes \o <<34>>)
    ELSE JSONMarshal(v)

\* JSONSerializer.Serialize
JSONSerialize(v) ==
    IF JSONMarshal(v).err # ""
    THEN Encoded("unable to serialize value to JSON", <<>>)
    ELSE JSONMarshal(v)

\* JSONSerializer.Deserialize
JSONDeserialize(raw) ==
    IF raw = <<>> THEN Decoded("", GoNil)
    ELSE IF JSONUnmarshal(raw).err # ""
    THEN Decoded("unable to deserialize JSON value", GoNil)
    ELSE JSONUnmarshal(raw)

\* The numbers of a []byte as fmt prints them, separated by spaces.
RECURSIVE SprintBytes(_)
SprintBytes(p) ==
    IF p = <<>> THEN <<>>
    ELSE Itoa(Head(p)) \o (IF Tail(p) = <<>> THEN <<>> ELSE <<32>>) \o SprintBytes(Tail(p))

\* fmt.Sprintf("%v", v) of a value that is not a slice of values.
SprintScalar(v) ==
    CASE v.type = "nil"     -> TextNilV
      [] v.type = "bool"    -> IF v.num = 1 THEN TextTrue ELSE TextFalse
      [] v.type = "int64"   -> Itoa(v.num)
      [] v.type = "float64" -> IF v.nan THEN TextNaN ELSE Itoa(v.num)
      [] v.type = "string"  -> v.text
      [] v.type = "[]byte"  -> <<91>> \o SprintBytes(v.text) \o <<93>>

RECURSIVE SprintItems(_)
SprintItems(xs) ==
    IF xs = <<>> THEN <<>>
    ELSE SprintScalar(Head(xs)) \o (IF Tail(xs) = <<>> THEN <<>> ELSE <<32>>)
            \o SprintItems(Tail(xs))

\* fmt.Sprintf("%v", v)
Sprint(v) ==
    IF v.type = "[]any" THEN <<91>> \o SprintItems(v.items) \o <<93>>
    ELSE SprintScalar(v)

\* StringSerializer.Serialize
StringSerialize(v) ==
    IF v.type = "string" THEN Encoded("", v.text) ELSE Encoded("", Sprint(v))

\* StringSerializer.Deserialize
StringDeserialize(raw) == Decoded("", GoString(raw))

\* The Serializer interface, bound to one of the two implementations.
Serializers == {"json", "string"}
Serialize(ser, v) == IF ser = "json" THEN JSONSerialize(v) ELSE StringSerialize(v)
Deserialize(ser, raw) == IF ser = "json" THEN JSONDeserialize(raw) ELSE StringDeserialize(raw)

----------------------------------------------------------------------------
(* MemoryStore called by several goroutines: each method takes mu (Lock    *)
(* for Set/Delete/Clear, RLock for the others) as its first statement and  *)
(* releases it, by defer, when it returns.                                 *)

Unlocked == [w |-> 0, r |-> {}]

\* The methods that take mu.Lock().
Writes(o) == o.kind \in {"Set", "Delete", "Clear"}

\* The calls goroutines make on the shared MemoryStore.
MemOps ==
    {GetOp(<<1>>), ExistsOp(<<1>>), SizeOp, ListOp(<<>>, 0), ListOp(<<>>, 1),
     ListOp(<<2>>, 0), ClearOp,
     DeleteOp(<<1>>), SetOp(<<1>>, StringValue(<<7>>)), SetOp(<<1>>, BytesValue(<<>>)),
     SetOp(<<2>>, StringValue(<<7>>)), SetOp(<<1>>, OtherValue(<<7>>))}

\* A goroutine calls a method of the MemoryStore.
MemInvoke(t) ==
    /\ pc[t] = "idle"
    /\ nOps < MaxMemCalls
    /\ \E o \in MemOps :
         /\ op' = [op EXCEPT ![t] = o]
         /\ wrote' = IF o.kind = "Set" /\ Supported(o.val)
                     THEN wrote \cup {<<o.key, ValueBytes(o.val)>>} ELSE wrote
    /\ nOps' = nOps + 1
    /\ pc' = [pc EXCEPT ![t] = "m_lock"]
    /\ UNCHANGED <<shared, file, res, nClose, nOpened, nPhysOpen, caller, jsmod, late, mem,
                   wrapped, mu, scan, linear, expect>>

\* The history: the call of goroutine t takes effect on its own.
Linearized(t) ==
    /\ linear' = MemCall(op[t], linear).container
    /\ expect' = [expect EXCEPT ![t] = MemCall(op[t], linear).res]

\* MemEnter taking the read lock whatever the method.
MemEnterReadLocked(t) ==
    /\ pc[t] = "m_lock"
    /\ mu.w = 0
    /\ mu' = [mu EXCEPT !.r = @ \cup {t}]
    /\ IF op[t].kind = "List"
       THEN /\ scan' = [scan EXCEPT ![t] = MemListKeys(container, op[t].key)]
            /\ pc' = [pc EXCEPT ![t] = "m_vals"]
            /\ UNCHANGED <<container, res>>
       ELSE /\ container' = MemCall(op[t], container).container
            /\ res' = [res EXCEPT ![t] = MemCall(op[t], container).res]
            /\ pc' = [pc EXCEPT ![t] = "m_unlock"]
            /\ scan' = scan
    /\ Linearized(t)
    /\ UNCHANGED <<shared, file, op, hist, caller, jsmod, late, mres, wrapped, wrote>>

\* MemEnter with a List that takes no lock.
MemEnterListUnlocked(t) ==
    /\ pc[t] = "m_lock"
    /\ IF op[t].kind = "List"
       THEN /\ mu' = mu
            /\ scan' = [scan EXCEPT ![t] = MemListKeys(container, op[t].key)]
            /\ pc' = [pc EXCEPT ![t] = "m_vals"]
            /\ UNCHANGED <<container, res>>
       ELSE /\ IF Writes(op[t])
               THEN /\ mu = Unlocked
                    /\ mu' = [mu EXCEPT !.w = t]
               ELSE /\ mu.w = 0
                    /\ mu' = [mu EXCEPT !.r = @ \cup {t}]
            /\ container' = MemCall(op[t], container).container
            /\ res' = [res EXCEPT ![t] = MemCall(op[t], container).res]
            /\ pc' = [pc EXCEPT ![t] = "m_unlock"]
            /\ scan' = scan
    /\ Linearized(t)
    /\ UNCHANGED <<shared, file, op, hist, caller, jsmod, late, mres, wrapped, wrote>>

\* The goroutine gets the lock (s.mu.Lock() waits until no goroutine holds
\* mu, s.mu.RLock() until no writer does) and runs the method's body up to
\* its return statement; the body of List first collects and sorts the keys
\* (memory.go 94-101).
MemEnter(t) ==
    /\ pc[t] = "m_lock"
    /\ IF Writes(op[t])
       THEN /\ mu = Unlocked
            /\ mu' = [mu EXCEPT !.w = t]
       ELSE /\ mu.w = 0
            /\ mu' = [mu EXCEPT !.r = @ \cup {t}]
    /\ IF op[t].kind = "List"
       THEN /\ scan' = [scan EXCEPT ![t] = MemListKeys(container, op[t].key)]
            /\ pc' = [pc EXCEPT ![t] = "m_vals"]
            /\ UNCHANGED <<container, res>>
       ELSE /\ container' = MemCall(op[t], container).container
            /\ res' = [res EXCEPT ![t] = MemCall(op[t], container).res]
            /\ pc' = [pc EXCEPT ![t] = "m_unlock"]
            /\ scan' = scan
    /\ Linearized(t)
    /\ UNCHANGED <<shared, file, op, hist, caller, jsmod, late, mres, wrapped, wrote>>

\* memory.go 103-120: List reads the value of each key it collected.
MemListValues(t) ==
    /\ pc[t] = "m_vals"
    /\ res' = [res EXCEPT ![t] =
                 Result("List", "", MemTake(scan[t], container, op[t].limit, 0))]
    /\ scan' = [scan EXCEPT ![t] = <<>>]
    /\ pc' = [pc EXCEPT ![t] = "m_unlock"]
    /\ UNCHANGED <<shared, file, op, hist, caller, jsmod, late, mem, wrapped, mu, linear,
                   expect, wrote>>

\* MemLeave without the release when the method returns an error.
MemLeaveHoldsOnError(t) ==
    /\ pc[t] = "m_unlock"
    /\ mu' = IF res[t].err # "" THEN mu
             ELSE IF mu.w = t THEN [mu EXCEPT !.w = 0] ELSE [mu EXCEPT !.r = @ \ {t}]
    /\ pc' = [pc EXCEPT ![t] = "idle"]
    /\ UNCHANGED <<shared, file, op, res, hist, caller, jsmod, late, mem, wrapped, scan,
                   linear, expect, wrote>>

\* The deferred s.mu.Unlock() or s.mu.RUnlock(), and the return.
MemLeave(t) ==
    /\ pc[t] = "m_unlock"
    /\ mu' = IF mu.w = t THEN [mu EXCEPT !.w = 0] ELSE [mu EXCEPT !.r = @ \ {t}]
    /\ pc' = [pc EXCEPT ![t] = "idle"]
    /\ UNCHANGED <<shared, file, op, res, hist, caller, jsmod, late, mem, wrapped, scan,
                   linear, expect, wrote>>

----------------------------------------------------------------------------
(* SerializedStore (kv/store/serialized_store.go) over a MemoryStore.      *)

\* The keys and the values given to the SerializedStore.
SerKeys == {<<1>>, <<2>>}
SerValues ==
    {GoNil, GoBool(TRUE), GoBool(FALSE), GoInt(42), GoInt(-7), GoFloat(42), GoNaN,
     GoString(<<>>), GoString(<<52, 50>>), GoString(<<34, 97>>), GoString(<<92>>),
     GoBytes(<<7>>), GoSlice(<<>>), GoSlice(<<GoInt(42), GoString(<<97>>)>>),
     GoSlice(<<GoFloat(0), GoNaN>>)}

\* A call on the SerializedStore: its arguments and what it returned.
SerCall(kind, key, arg, err, val) ==
    [kind |-> kind, key |-> key, arg |-> arg, err |-> err, val |-> val]
NoCall == SerCall("none", <<>>, GoNil, "", GoNil)

\* An entry of the history sent.
Sent(v, ser) == [set |-> TRUE, val |-> v, ser |-> ser]
NotSent == [set |-> FALSE, val |-> GoNil, ser |-> "json"]

\* SerSet handing the value to the backend as it got it.
SerSetUnserialized(k, v) ==
    /\ MemApply(SetOp(k, IF v.type = "string" THEN StringValue(v.text)
                         ELSE OtherValue(<<>>)))
    /\ scall' = SerCall("Set", k, v, mres'.err, GoNil)
    /\ sent' = IF scall'.err = "" THEN [sent EXCEPT ![k] = Sent(v, serializer)] ELSE sent
    /\ UNCHANGED <<shared, file, procs, hist, caller, jsmod, late, serializer, memsync>>

\* SerializedStore.Set (serialized_store.go 45-54)
SerSet(k, v) ==
    LET enc == Serialize(serializer, v) IN
    /\ IF enc.err # ""
       THEN /\ scall' = SerCall("Set", k, v, "failed to serialize value", GoNil)
            /\ UNCHANGED mem
       ELSE /\ MemApply(SetOp(k, BytesValue(enc.bytes)))
            /\ scall' = SerCall("Set", k, v, mres'.err, GoNil)
    /\ sent' = IF scall'.err = "" THEN [sent EXCEPT ![k] = Sent(v, serializer)] ELSE sent
    /\ UNCHANGED <<shared, file, procs, hist, caller, jsmod, late, serializer, memsync>>

\* SerGet decoding with the serializer the store was constructed with.
SerGetFirstBinding(k) ==
    /\ MemApply(GetOp(k))
    /\ scall' = IF mres'.err # ""
                THEN SerCall("Get", k, GoNil, mres'.err, GoNil)
                ELSE LET dec == Deserialize("json", mres'.val) IN
                     SerCall("Get", k, GoNil, dec.err, dec.val)
    /\ UNCHANGED <<shared, file, procs, hist, caller, jsmod, late, serializer, sent, memsync>>

\* SerializedStore.Get (serialized_store.go 23-42); the raw value of a
\* MemoryStore is a []byte.
SerGet(k) ==
    /\ MemApply(GetOp(k))
    /\ scall' = IF mres'.err # ""
                THEN SerCall("Get", k, GoNil, mres'.err, GoNil)
                ELSE LET dec == Deserialize(serializer, mres'.val) IN
                     SerCall("Get", k, GoNil, dec.err, dec.val)
    /\ UNCHANGED <<shared, file, procs, hist, caller, jsmod, late, serializer, sent, memsync>>

\* The []Entry that SerializedStore.List returns.
GoEntries(es) == [type |-> "[]Entry", num |-> 0, nan |-> FALSE, text |-> <<>>,
                  items |-> es]

\* serialized_store.go 85-109: the loop that decodes the value of each raw
\* entry and stops at the first one that cannot be decoded.
RECURSIVE DecodeEntries(_, _)
DecodeEntries(ser, es) ==
    IF es = <<>> THEN [err |-> "", items |-> <<>>]
    ELSE LET dec == Deserialize(ser, Head(es).Value)
             rest == DecodeEntries(ser, Tail(es))
         IN  IF dec.err # ""
             THEN [err |-> "failed to deserialize value for key", items |-> <<>>]
             ELSE IF rest.err # "" THEN rest
             ELSE [err |-> "",
                   items |-> <<[Key |-> Head(es).Key, Value |-> dec.val]>> \o rest.items]

\* SerializedStore.List (serialized_store.go 77-112); the call is noted with
\* its prefix as key and its limit as argument.
SerList(prefix, limit) ==
    /\ MemApply(ListOp(prefix, limit))
    /\ scall' = LET dec == DecodeEntries(serializer, mres'.val) IN
                IF mres'.err # ""
                THEN SerCall("List", prefix, GoInt(limit), mres'.err, GoNil)
                ELSE IF dec.err # ""
                THEN SerCall("List", prefix, GoInt(limit), dec.err, GoNil)
                ELSE SerCall("List", prefix, GoInt(limit), "", GoEntries(dec.items))
    /\ UNCHANGED <<shared, file, procs, hist, caller, jsmod, late, serializer, sent, memsync>>

\* SerializedStore.SetSerializer (serialized_store.go 125-127)
SetSerializer(ser) ==
    /\ serializer' = ser
    /\ UNCHANGED <<shared, file, procs, hist, caller, jsmod, late, mem, scall, sent, memsync>>

----------------------------------------------------------------------------
(* The JS module: RootModule, ModuleInstance.OpenKv (kv/module.go) and the *)
(* KV instances (kv/kv.go). A VU is a goroutine of Threads.                *)

\* The most calls the VUs make on the module and on their KV instances.
MaxKvCalls == 4

\* module.go 164-170
DefaultBackend == "disk"
DefaultSerialization == "json"

\* The options given to openKv: none (null or undefined), or an object with
\* a backend and a serialization.
NoOptions == [backend |-> "", serialization |-> ""]
OpenKvOptions ==
    {NoOptions,
     [backend |-> "memory", serialization |-> "json"],
     [backend |-> "memory", serialization |-> "string"],
     [backend |-> "memory", serialization |-> "xml"],
     [backend |-> "redis", serialization |-> "json"]}

\* NewOptionsFrom without the check of the serialization.
NewOptionsFromAnySerialization(o) ==
    IF o = NoOptions
    THEN [err |-> "", backend |-> DefaultBackend, serialization |-> DefaultSerialization]
    ELSE IF o.backend # "memory" /\ o.backend # "disk"
    THEN [err |-> "invalid backend", backend |-> o.backend,
          serialization |-> o.serialization]
    ELSE [err |-> "", backend |-> o.backend, serialization |-> o.serialization]

\* NewOptionsFrom (module.go 134-162)
NewOptionsFrom(o) ==
    IF o = NoOptions
    THEN [err |-> "", backend |-> DefaultBackend, serialization |-> DefaultSerialization]
    ELSE IF o.backend # "memory" /\ o.backend # "disk"
    THEN [err |-> "invalid backend", backend |-> o.backend,
          serialization |-> o.serialization]
    ELSE IF o.serialization # "json" /\ o.serialization # "string"
    THEN [err |-> "invalid serialization", backend |-> o.backend,
          serialization |-> o.serialization]
    ELSE [err |-> "", backend |-> o.backend, serialization |-> o.serialization]

\* A SerializedStore over a MemoryStore or a DiskStore: the serializer
\* bound to it, the container of the MemoryStore, and the opened flag, the
\* reference count and the handle of the DiskStore.
NoStore ==
    [made |-> FALSE, backend |-> "none", ser |-> "json", container |-> EmptyData,
     opened |-> FALSE, refCount |-> 0, handle |-> "zero"]

\* module.go 91-111: the store OpenKv constructs for valid options; any
\* serialization that is not "string" gives the JSON serializer.
NewStore(backend, serialization) ==
    [NoStore EXCEPT !.made = TRUE, !.backend = backend,
                    !.ser = IF serialization = "string" THEN "string" ELSE "json"]

\* promises.New (kv.go 38): a pending promise; neither of its two functions
\* has been called.
NoPromise == [resolved |-> 0, rejected |-> 0]

\* A KV instance: the store it was given, and whether Close was called on it.
NoKV == [store |-> 0, closed |-> FALSE]

OpenKvOp == [kind |-> "OpenKv", key |-> <<>>, val |-> NilValue, limit |-> 0]

\* DiskStore.open (disk.go 45-81) for callers that come one after the other.
DiskOpened(st) ==
    IF st.opened THEN [st EXCEPT !.refCount = @ + 1]
    ELSE [st EXCEPT !.handle = "open", !.opened = TRUE, !.refCount = @ + 1]

\* DiskStore.Close (disk.go 290-313) for callers that come one after the
\* other.
DiskClosed(st) ==
    IF ~st.opened THEN st
    ELSE IF st.refCount - 1 > 0 THEN [st EXCEPT !.refCount = @ - 1]
    ELSE [st EXCEPT !.refCount = @ - 1, !.handle = "closed", !.opened = FALSE]

----------------------------------------------------------------------------
(* The state after NewDiskStore() on a path where no file exists yet, and  *)
(* after NewMemoryStore().                                                 *)

Init ==
    /\ opened = FALSE
    /\ refCount = 0
    /\ lock = 0
    /\ handle = "zero"          \* new(bolt.DB): a DB object that was never opened
    /\ bucket = FALSE
    /\ data = EmptyData
    /\ pc = [t \in Threads |-> "idle"]
    /\ op = [t \in Threads |-> NoOp]
    /\ res = [t \in Threads |-> NoResult]
    /\ nOps = 0
    /\ nClose = 0
    /\ nOpened = 0
    /\ nPhysOpen = 0
    /\ log = <<>>
    /\ want = EmptyData
    /\ mwant = EmptyData
    /\ container = EmptyData   \* NewMemoryStore(): an empty map
    /\ mres = NoResult
    /\ serializer = "json"    \* module.go 101-108: JSON unless "string" is asked for
    /\ scall = NoCall
    /\ sent = [k \in SerKeys |-> NotSent]
    /\ mu = Unlocked          \* the zero sync.RWMutex
    /\ scan = [t \in Threads |-> <<>>]
    /\ linear = EmptyData
    /\ expect = [t \in Threads |-> NoResult]
    /\ wrote = {}
    /\ rmStore = 0            \* module.go 51-55: New() leaves the store nil
    /\ stores = [s \in Threads |-> NoStore]
    /\ kvs = [t \in Threads |-> NoKV]
    /\ opts = [t \in Threads |-> NoOptions]
    /\ leaked = 0
    /\ promise = [t \in Threads |-> NoPromise]
    /\ seen = [t \in Threads |-> 0]

----------------------------------------------------------------------------
(* DiskStore.open, called first by every operation. *)

\* A goroutine calls Get/Set/Delete/Exists/Clear/Size/List; the call starts
\* with open()'s lock-free check of the opened flag (disk.go 46).
CallOp(t, ops, max) ==
    /\ pc[t] = "idle"
    /\ nOps + nClose < max
    /\ \E o \in ops : op' = [op EXCEPT ![t] = o]
    /\ pc' = [pc EXCEPT ![t] = IF opened THEN "open_add" ELSE "open_lock"]
    /\ nOps' = nOps + 1
    /\ UNCHANGED <<shared, file, res, nClose, nOpened, nPhysOpen>>

\* disk.go 47-48: the store was seen open; count the reference and return.
OpenAdd(t) ==
    /\ pc[t] = "open_add"
    /\ refCount' = refCount + 1
    /\ nOpened' = nOpened + 1
    /\ pc' = [pc EXCEPT ![t] = "txn"]
    /\ UNCHANGED <<opened, lock, handle, file, op, res, nOps, nClose, nPhysOpen>>

\* OpenLock without the second check of the flag under the lock.
OpenLockNoRecheck(t) ==
    /\ pc[t] = "open_lock"
    /\ lock = 0
    /\ lock' = t
    /\ nOpened' = nOpened
    /\ pc' = [pc EXCEPT ![t] = "open_phys"]
    /\ UNCHANGED <<opened, refCount, handle, file, op, res, nOps, nClose, nPhysOpen>>

\* disk.go 51-56: take the lock and check the flag again. When the store
\* was opened meanwhile, open() returns nil (the deferred Unlock runs) and
\* leaves refCount as it is; otherwise the physical open starts.
OpenLock(t) ==
    /\ pc[t] = "open_lock"
    /\ lock = 0
    /\ IF opened
       THEN /\ lock' = 0
            /\ nOpened' = nOpened + 1
            /\ pc' = [pc EXCEPT ![t] = "txn"]
       ELSE /\ lock' = t
            /\ nOpened' = nOpened
            /\ pc' = [pc EXCEPT ![t] = "open_phys"]
    /\ UNCHANGED <<opened, refCount, handle, file, op, res, nOps, nClose, nPhysOpen>>

\* OpenPhys opening the file as a new, empty one.
OpenPhysTruncate(t) ==
    /\ pc[t] = "open_phys"
    /\ handle # "open"
    /\ handle' = "open"
    /\ bucket' = TRUE
    /\ data' = EmptyData
    /\ nPhysOpen' = nPhysOpen + 1
    /\ pc' = [pc EXCEPT ![t] = "open_store"]
    /\ UNCHANGED <<opened, refCount, lock, op, res, nOps, nClose, nOpened>>

\* disk.go 58-76: bolt.Open, which waits for the file lock while another DB
\* object holds the file, then CreateBucketIfNotExists, then s.handle and
\* s.bucket are set.
OpenPhys(t) ==
    /\ pc[t] = "open_phys"
    /\ handle # "open"
    /\ leaked = 0
    /\ handle' = "open"
    /\ bucket' = TRUE
    /\ nPhysOpen' = nPhysOpen + 1
    /\ pc' = [pc EXCEPT ![t] = "open_store"]
    /\ UNCHANGED <<opened, refCount, lock, data, op, res, nOps, nClose, nOpened>>

\* disk.go 77: s.opened.Store(true)
OpenStore(t) ==
    /\ pc[t] = "open_store"
    /\ opened' = TRUE
    /\ pc' = [pc EXCEPT ![t] = "open_incr"]
    /\ UNCHANGED <<refCount, lock, handle, file, op, res, hist>>

\* disk.go 78-80: s.refCount.Add(1), return nil, the deferred Unlock.
OpenIncr(t) ==
    /\ pc[t] = "open_incr"
    /\ refCount' = refCount + 1
    /\ lock' = 0
    /\ nOpened' = nOpened + 1
    /\ pc' = [pc EXCEPT ![t] = "txn"]
    /\ UNCHANGED <<opened, handle, file, op, res, nOps, nClose, nPhysOpen>>

----------------------------------------------------------------------------
(* The body of an operation after open() returned nil. *)

\* What the operation returns and leaves in the file: the type switch of
\* Set first (disk.go 122-130), then the transaction on s.handle, which
\* bolt refuses when that DB is not open.
Outcome(o, h, hasBucket, d) ==
    IF o.kind = "Set" /\ ~Supported(o.val)
    THEN [res |-> Result("Set", "unsupported value type", Nil), data |-> d]
    ELSE IF h # "open"
    THEN [res |-> Result(o.kind, "database not open", Nil), data |-> d]
    ELSE DiskTxn(o, hasBucket, d)

\* Txn whose transaction is rolled back: the result is returned, the file
\* keeps its content.
TxnRolledBack(t) ==
    /\ pc[t] = "txn"
    /\ data' = data
    /\ res' = [res EXCEPT ![t] = Outcome(op[t], handle, bucket, data).res]
    /\ pc' = [pc EXCEPT ![t] = "idle"]
    /\ UNCHANGED <<shared, bucket, op, hist>>

\* disk.go 92-146 and alike: the transaction of the operation (View for the
\* reads, Update for the writes) and the return of the call.
Txn(t) ==
    /\ pc[t] = "txn"
    /\ LET out == Outcome(op[t], handle, bucket, data) IN
        /\ data' = out.data
        /\ res' = [res EXCEPT ![t] = out.res]
    /\ pc' = [pc EXCEPT ![t] = "idle"]
    /\ UNCHANGED <<shared, bucket, op, hist>>

----------------------------------------------------------------------------
(* DiskStore.Close *)

\* CallClose without the check of the flag: every Close goes on to the lock.
CallCloseNoCheck(t, max) ==
    /\ pc[t] = "idle"
    /\ nOps + nClose < max
    /\ op' = [op EXCEPT ![t] = CloseOp]
    /\ nClose' = nClose + 1
    /\ pc' = [pc EXCEPT ![t] = "close_lock"]
    /\ res' = res
    /\ UNCHANGED <<shared, file, nOps, nOpened, nPhysOpen>>

\* A goroutine calls Close; disk.go 291-293: when the flag is not set the
\* call returns nil at once.
CallClose(t, max) ==
    /\ pc[t] = "idle"
    /\ nOps + nClose < max
    /\ op' = [op EXCEPT ![t] = CloseOp]
    /\ nClose' = nClose + 1
    /\ IF opened
       THEN /\ pc' = [pc EXCEPT ![t] = "close_lock"]
            /\ res' = res
       ELSE /\ pc' = pc
            /\ res' = [res EXCEPT ![t] = Result("Close", "", Nil)]
    /\ UNCHANGED <<shared, file, nOps, nOpened, nPhysOpen>>

\* CloseDec comparing newCount >= 0 instead of newCount > 0.
CloseDecOffByOne(t) ==
    /\ pc[t] = "close_lock"
    /\ lock = 0
    /\ refCount' = refCount - 1
    /\ IF refCount - 1 >= 0
       THEN /\ lock' = 0
            /\ pc' = [pc EXCEPT ![t] = "idle"]
            /\ res' = [res EXCEPT ![t] = Result("Close", "", Nil)]
       ELSE /\ lock' = t
            /\ pc' = [pc EXCEPT ![t] = "close_phys"]
            /\ res' = res
    /\ UNCHANGED <<opened, handle, file, op, hist>>

\* disk.go 295-303: take the lock, decrement; when references are left the
\* call returns nil (the deferred Unlock runs).
CloseDec(t) ==
    /\ pc[t] = "close_lock"
    /\ lock = 0
    /\ refCount' = refCount - 1
    /\ IF refCount - 1 > 0
       THEN /\ lock' = 0
            /\ pc' = [pc EXCEPT ![t] = "idle"]
            /\ res' = [res EXCEPT ![t] = Result("Close", "", Nil)]
       ELSE /\ lock' = t
            /\ pc' = [pc EXCEPT ![t] = "close_phys"]
            /\ res' = res
    /\ UNCHANGED <<opened, handle, file, op, hist>>

\* ClosePhys without s.opened.Store(false).
ClosePhysKeepFlag(t) ==
    /\ pc[t] = "close_phys"
    /\ handle' = IF handle = "open" THEN "closed" ELSE handle
    /\ opened' = opened
    /\ lock' = 0
    /\ pc' = [pc EXCEPT ![t] = "idle"]
    /\ res' = [res EXCEPT ![t] = Result("Close", "", Nil)]
    /\ UNCHANGED <<refCount, file, op, hist>>

\* ClosePhys returning without the deferred Unlock.
ClosePhysHoldsLock(t) ==
    /\ pc[t] = "close_phys"
    /\ handle' = IF handle = "open" THEN "closed" ELSE handle
    /\ opened' = FALSE
    /\ lock' = lock
    /\ pc' = [pc EXCEPT ![t] = "idle"]
    /\ res' = [res EXCEPT ![t] = Result("Close", "", Nil)]
    /\ UNCHANGED <<refCount, file, op, hist>>

\* disk.go 306-312: s.handle.Close() (which does nothing on a DB that is not
\* open), s.opened.Store(false), return nil, the deferred Unlock.
ClosePhys(t) ==
    /\ pc[t] = "close_phys"
    /\ handle' = IF handle = "open" THEN "closed" ELSE handle
    /\ opened' = FALSE
    /\ lock' = 0
    /\ pc' = [pc EXCEPT ![t] = "idle"]
    /\ res' = [res EXCEPT ![t] = Result("Close", "", Nil)]
    /\ UNCHANGED <<refCount, file, op, hist>>

----------------------------------------------------------------------------
(* Specifications. *)

\* The calls goroutines issue concurrently.
ConcOps ==
    {GetOp(<<1>>), SetOp(<<1>>, StringValue(<<7>>)), SetOp(<<1>>, OtherValue(<<7>>)),
     DeleteOp(<<1>>), ExistsOp(<<1>>), ClearOp, SizeOp, ListOp(<<>>, 0)}

\* The calls of the sequential specification.
SeqOps ==
    {GetOp(k) : k \in ShortKeys}
    \cup {SetOp(k, BytesValue(p)) : k \in ShortKeys, p \in Payloads}
    \cup {SetOp(k, StringValue(p)) : k \in ShortKeys, p \in Payloads}
    \cup {SetOp(k, OtherValue(p)) : k \in ShortKeys, p \in Payloads}
    \cup {DeleteOp(k) : k \in ShortKeys}
    \cup {ExistsOp(k) : k \in ShortKeys}
    \cup {SetOp(LongKey, StringValue(<<7>>)), GetOp(LongKey)}
    \cup {ClearOp, SizeOp}
    \cup {ListOp(p, l) : p \in {<<>>, <<1>>}, l \in {-1, 0, 1}}

\* Goroutines call one DiskStore concurrently.
Next ==
    \E t \in Threads :
        \/ CallOp(t, ConcOps, MaxCalls) /\ UNCHANGED <<caller, jsmod, late, mem, wrapped, memsync>>
        \/ CallClose(t, MaxCalls) /\ UNCHANGED <<caller, jsmod, late, mem, wrapped, memsync>>
        \/ OpenAdd(t) /\ UNCHANGED <<caller, jsmod, late, mem, wrapped, memsync>>
        \/ OpenLock(t) /\ UNCHANGED <<caller, jsmod, late, mem, wrapped, memsync>>
        \/ OpenPhys(t) /\ UNCHANGED <<caller, jsmod, late, mem, wrapped, memsync>>
        \/ OpenStore(t) /\ UNCHANGED <<caller, jsmod, late, mem, wrapped, memsync>>
        \/ OpenIncr(t) /\ UNCHANGED <<caller, jsmod, late, mem, wrapped, memsync>>
        \/ Txn(t) /\ UNCHANGED <<caller, jsmod, late, mem, wrapped, memsync>>
        \/ CloseDec(t) /\ UNCHANGED <<caller, jsmod, late, mem, wrapped, memsync>>
        \/ ClosePhys(t) /\ UNCHANGED <<caller, jsmod, late, mem, wrapped, memsync>>

Spec == Init /\ [][Next]_vars

\* What the steps of the DiskStore leave alone.
rest == <<caller, jsmod, late, mem, wrapped, memsync>>

\* The Go scheduler runs every goroutine that can run, and sync.Mutex hands
\* the lock to a goroutine that has waited for it (its starvation mode): a
\* goroutine inside open() or Close goes on, and one that waits for
\* DiskStore.lock gets it when the lock is free again and again. Nothing
\* makes a goroutine start a further call.
Fairness ==
    \A t \in Threads :
        /\ WF_vars(OpenAdd(t) /\ UNCHANGED rest)
        /\ SF_vars(OpenLock(t) /\ UNCHANGED rest)
        /\ WF_vars(OpenPhys(t) /\ UNCHANGED rest)
        /\ WF_vars(OpenStore(t) /\ UNCHANGED rest)
        /\ WF_vars(OpenIncr(t) /\ UNCHANGED rest)
        /\ WF_vars(Txn(t) /\ UNCHANGED rest)
        /\ SF_vars(CloseDec(t) /\ UNCHANGED rest)
        /\ WF_vars(ClosePhys(t) /\ UNCHANGED rest)

SpecFair == Init /\ [][Next]_vars /\ Fairness

\* The caller writes down how each call returned: "close" for a Close,
\* "ok" for an operation that returned no error, "err" for one that did.
Returned(r) ==
    IF r.kind = "Close" THEN "close" ELSE IF r.err = "" THEN "ok" ELSE "err"

\* What the caller expects the store to hold after the call o succeeded.
Effect(o, w) ==
    CASE o.kind = "Set"    -> [k \in DOMAIN w \cup {o.key} |->
                                 IF k = o.key THEN ValueBytes(o.val) ELSE w[k]]
      [] o.kind = "Delete" -> [k \in DOMAIN w |-> IF k = o.key THEN NoVal ELSE w[k]]
      [] o.kind = "Clear"  -> [k \in DOMAIN w |-> NoVal]
      [] OTHER             -> w

\* The caller's notes after a step of goroutine c: a step that ends a call
\* adds how it returned, and a successful operation its effect. A call on
\* the MemoryStore returns in the step that makes it.
Noted(c) ==
    /\ log' = IF pc'[c] = "idle" THEN Append(log, Returned(res'[c])) ELSE log
    /\ want' = IF pc[c] = "txn" /\ pc'[c] = "idle" /\ res'[c].err = ""
               THEN Effect(op[c], want) ELSE want
    /\ mwant' = IF nOps' = nOps + 1 /\ mres'.err = ""
                THEN Effect(op'[c], mwant) ELSE mwant

\* One goroutine calls a DiskStore, every call returning before the next,
\* and makes each call on a MemoryStore as well.
NextSeq ==
    \/ CallOp(1, SeqOps, MaxSeqCalls) /\ MemApply(op'[1]) /\ Noted(1) /\ UNCHANGED <<wrapped, memsync, jsmod, late>>
    \/ CallClose(1, MaxSeqCalls) /\ MemApply(CloseOp) /\ Noted(1) /\ UNCHANGED <<wrapped, memsync, jsmod, late>>
    \/ OpenAdd(1) /\ UNCHANGED mem /\ Noted(1) /\ UNCHANGED <<wrapped, memsync, jsmod, late>>
    \/ OpenLock(1) /\ UNCHANGED mem /\ Noted(1) /\ UNCHANGED <<wrapped, memsync, jsmod, late>>
    \/ OpenPhys(1) /\ UNCHANGED mem /\ Noted(1) /\ UNCHANGED <<wrapped, memsync, jsmod, late>>
    \/ OpenStore(1) /\ UNCHANGED mem /\ Noted(1) /\ UNCHANGED <<wrapped, memsync, jsmod, late>>
    \/ OpenIncr(1) /\ UNCHANGED mem /\ Noted(1) /\ UNCHANGED <<wrapped, memsync, jsmod, late>>
    \/ Txn(1) /\ UNCHANGED mem /\ Noted(1) /\ UNCHANGED <<wrapped, memsync, jsmod, late>>
    \/ CloseDec(1) /\ UNCHANGED mem /\ Noted(1) /\ UNCHANGED <<wrapped, memsync, jsmod, late>>
    \/ ClosePhys(1) /\ UNCHANGED mem /\ Noted(1) /\ UNCHANGED <<wrapped, memsync, jsmod, late>>

SpecSeq == Init /\ [][NextSeq]_vars

\* A caller makes calls on a SerializedStore whose backend is a
\* MemoryStore, and swaps its serializer.
NextSer ==
    \/ \E k \in SerKeys, v \in SerValues : SerSet(k, v)
    \/ \E k \in SerKeys : SerGet(k)
    \/ \E ser \in Serializers : SetSerializer(ser)
    \/ \E prefix \in {<<>>, <<1>>}, limit \in {0, 1} : SerList(prefix, limit)

SpecSer == Init /\ [][NextSer]_vars

\* Goroutines call one MemoryStore concurrently.
NextMem ==
    \E t \in Threads :
        \/ MemInvoke(t)
        \/ MemEnter(t)
        \/ MemListValues(t)
        \/ MemLeave(t)

SpecMem == Init /\ [][NextMem]_vars

\* The Go scheduler runs every goroutine that can run: a goroutine that is
\* inside a method goes on, and one that waits for mu gets it when mu stays
\* free for it. Nothing makes a goroutine start a further call.
MemFairness ==
    \A t \in Threads :
        /\ WF_vars(MemEnter(t))
        /\ WF_vars(MemListValues(t))
        /\ WF_vars(MemLeave(t))

SpecMemFair == Init /\ [][NextMem]_vars /\ MemFairness

----------------------------------------------------------------------------
(* DiskStore on a file that another user of the engine wrote, and with     *)
(* transactions the engine cannot commit.                                  *)

\* The most calls made on the DiskStore whose engine can fail.
MaxFaultCalls == 3

\* What the store's bucket holds under a key that is a nested bucket: the
\* cursor gives the key with a nil value, Get gives nil, and Put and Delete
\* return ErrIncompatibleValue.
SubBucket == <<-2>>

\* The contents of the store's bucket in the file that DiskStore opens.
FaultFiles ==
    {d \in [Keys -> {NoVal, <<7>>, SubBucket}] : d[LongKey] = NoVal}

\* handle.Update that commits whatever its function returns.
BoltUpdateNoRollback(fnErr, commitErr, before, after) == after

\* handle.Update (disk.go 132, 155, 201): the transaction is rolled back
\* when the function returns an error or when the commit fails, and the
\* bucket is then as before; otherwise what the function wrote is there.
BoltUpdate(fnErr, commitErr, before, after) ==
    IF fnErr # "" \/ commitErr THEN before ELSE after

\* disk.go 207-209: bucket.ForEach gives the keys in ascending order to a
\* function that deletes the key; the walk stops at the first error. Gives
\* the error and the bucket as the walk left it inside the transaction.
RECURSIVE ClearWalk(_, _)
ClearWalk(ks, d) ==
    IF ks = <<>> THEN [err |-> "", data |-> d]
    ELSE IF d[Head(ks)] = SubBucket
    THEN [err |-> "incompatible value", data |-> d]
    ELSE ClearWalk(Tail(ks), [k \in DOMAIN d |-> IF k = Head(ks) THEN NoVal ELSE d[k]])

\* The function that Get, Set, Delete and Clear give to View or Update, on a
\* bucket that may hold nested buckets: its error and what it wrote.
FaultFn(o, hasBucket, d) ==
    CASE hasBucket /\ o.kind = "Clear" -> ClearWalk(Ascending(LiveKeys(d)), d)
      [] hasBucket /\ o.kind \in {"Set", "Delete"} /\ d[o.key] = SubBucket ->
           [err |-> "incompatible value", data |-> d]
      [] hasBucket /\ o.kind = "Get" /\ d[o.key] = SubBucket ->
           [err |-> "key not found", data |-> d]
      [] OTHER -> [err |-> DiskTxn(o, hasBucket, d).res.err,
                   data |-> DiskTxn(o, hasBucket, d).data]

\* The call o on a DiskStore whose handle is h, when the commit of a write
\* transaction fails (commitFails) or not: the result and the bucket after.
FaultOutcome(o, h, hasBucket, d, commitFails) ==
    LET fn == FaultFn(o, hasBucket, d)
        commitErr == commitFails /\ Writes(o)
    IN  IF (o.kind = "Set" /\ ~Supported(o.val)) \/ h # "open"
        THEN Outcome(o, h, hasBucket, d)
        ELSE [res |-> IF fn.err # "" THEN Result(o.kind, fn.err, Nil)
                      ELSE IF commitErr THEN Result(o.kind, "commit failed", Nil)
                      ELSE DiskTxn(o, hasBucket, d).res,
              data |-> BoltUpdate(fn.err, commitErr, d, fn.data)]

\* The transaction of the operation and the return of the call, on an
\* engine that can fail.
TxnFault(t) ==
    /\ pc[t] = "txn"
    /\ \E commitFails \in BOOLEAN :
         LET out == FaultOutcome(op[t], handle, bucket, data, commitFails) IN
         /\ data' = out.data
         /\ res' = [res EXCEPT ![t] = out.res]
    /\ pc' = [pc EXCEPT ![t] = "idle"]
    /\ UNCHANGED <<shared, bucket, op, hist>>

\* The calls made on that DiskStore.
FaultOps ==
    {ClearOp, GetOp(<<2>>), DeleteOp(<<1>>), DeleteOp(<<2>>),
     SetOp(<<1>>, StringValue(<<7>>)), SetOp(<<2>>, BytesValue(<<>>))}

\* NewDiskStore() on a path where a file of the engine is.
InitFault ==
    /\ opened = FALSE
    /\ refCount = 0
    /\ lock = 0
    /\ handle = "zero"
    /\ bucket = TRUE
    /\ data \in FaultFiles
    /\ pc = [t \in Threads |-> "idle"]
    /\ op = [t \in Threads |-> NoOp]
    /\ res = [t \in Threads |-> NoResult]
    /\ nOps = 0
    /\ nClose = 0
    /\ nOpened = 0
    /\ nPhysOpen = 0
    /\ log = <<>>
    /\ want = EmptyData
    /\ mwant = EmptyData
    /\ container = EmptyData
    /\ mres = NoResult
    /\ serializer = "json"
    /\ scall = NoCall
    /\ sent = [k \in SerKeys |-> NotSent]
    /\ mu = Unlocked
    /\ scan = [t \in Threads |-> <<>>]
    /\ linear = EmptyData
    /\ expect = [t \in Threads |-> NoResult]
    /\ wrote = {}
    /\ rmStore = 0            \* module.go 51-55: New() leaves the store nil
    /\ stores = [s \in Threads |-> NoStore]
    /\ kvs = [t \in Threads |-> NoKV]
    /\ opts = [t \in Threads |-> NoOptions]
    /\ leaked = 0
    /\ promise = [t \in Threads |-> NoPromise]
    /\ seen = [t \in Threads |-> 0]

\* One goroutine calls the DiskStore, every call returning before the next.
NextFault ==
    \/ CallOp(1, FaultOps, MaxFaultCalls) /\ UNCHANGED <<caller, jsmod, late, mem, wrapped, memsync>>
    \/ OpenAdd(1) /\ UNCHANGED <<caller, jsmod, late, mem, wrapped, memsync>>
    \/ OpenLock(1) /\ UNCHANGED <<caller, jsmod, late, mem, wrapped, memsync>>
    \/ OpenPhys(1) /\ UNCHANGED <<caller, jsmod, late, mem, wrapped, memsync>>
    \/ OpenStore(1) /\ UNCHANGED <<caller, jsmod, late, mem, wrapped, memsync>>
    \/ OpenIncr(1) /\ UNCHANGED <<caller, jsmod, late, mem, wrapped, memsync>>
    \/ TxnFault(1) /\ UNCHANGED <<caller, jsmod, late, mem, wrapped, memsync>>

SpecFault == InitFault /\ [][NextFault]_vars

----------------------------------------------------------------------------
(* DiskStore on an engine whose Open, first transaction and Close can      *)
(* fail.                                                                   *)

\* The most calls made on the DiskStore whose engine can fail to open or to
\* close.
MaxEngineCalls == 4

\* What an operation returns when open() returned an error (disk.go 86-88,
\* 117-119 and alike): the error of open(), wrapped.
OpenFailed(o) == Result(o.kind, "failed to open disk store", Nil)

\* disk.go 58-61: bolt.Open returns an error (the file cannot be opened or
\* is not a file of the engine); open() returns it, the deferred Unlock
\* runs, and the operation returns.
OpenFails(t) ==
    /\ pc[t] = "open_phys"
    /\ lock' = 0
    /\ res' = [res EXCEPT ![t] = OpenFailed(op[t])]
    /\ pc' = [pc EXCEPT ![t] = "idle"]
    /\ leaked' = leaked
    /\ UNCHANGED <<opened, refCount, handle, file, op, hist>>

\* disk.go 58-73: bolt.Open returns a DB, which holds the file from then
\* on, and the transaction that creates the bucket fails. open() returns
\* the error without closing that DB and without storing it in s.handle:
\* the DB stays open and nothing points to it.
BucketFails(t) ==
    /\ pc[t] = "open_phys"
    /\ handle # "open"
    /\ leaked = 0
    /\ nPhysOpen' = nPhysOpen + 1
    /\ lock' = 0
    /\ res' = [res EXCEPT ![t] = OpenFailed(op[t])]
    /\ pc' = [pc EXCEPT ![t] = "idle"]
    /\ leaked' = leaked + 1
    /\ UNCHANGED <<opened, refCount, handle, file, op, nOps, nClose, nOpened>>

\* disk.go 306-309: s.handle.Close() returns an error, which only a DB that
\* is open does; Close returns it, the deferred Unlock runs. The flag is
\* not cleared and the decrement of disk.go 299 stays. Whether the engine
\* still takes transactions on that DB is not settled by this code.
CloseFails(t) ==
    /\ pc[t] = "close_phys"
    /\ handle = "open"
    /\ handle' \in {"open", "closed"}
    /\ refCount' = refCount
    /\ lock' = 0
    /\ res' = [res EXCEPT ![t] = Result("Close", "close failed", Nil)]
    /\ pc' = [pc EXCEPT ![t] = "idle"]
    /\ leaked' = leaked
    /\ UNCHANGED <<opened, file, op, hist>>

\* The calls made on that DiskStore.
EngineOps == {GetOp(<<1>>), SetOp(<<1>>, StringValue(<<7>>)), SizeOp}

\* One goroutine calls the DiskStore, every call returning before the next.
NextEngine ==
    \/ CallOp(1, EngineOps, MaxEngineCalls) /\ UNCHANGED <<caller, jsmod, late, mem, wrapped, memsync>>
    \/ CallClose(1, MaxEngineCalls) /\ UNCHANGED <<caller, jsmod, late, mem, wrapped, memsync>>
    \/ OpenAdd(1) /\ UNCHANGED <<caller, jsmod, late, mem, wrapped, memsync>>
    \/ OpenLock(1) /\ UNCHANGED <<caller, jsmod, late, mem, wrapped, memsync>>
    \/ OpenPhys(1) /\ UNCHANGED <<caller, jsmod, late, mem, wrapped, memsync>>
    \/ OpenFails(1) /\ UNCHANGED <<caller, jsmod, promise, seen, mem, wrapped, memsync>>
    \/ BucketFails(1) /\ UNCHANGED <<caller, jsmod, promise, seen, mem, wrapped, memsync>>
    \/ OpenStore(1) /\ UNCHANGED <<caller, jsmod, late, mem, wrapped, memsync>>
    \/ OpenIncr(1) /\ UNCHANGED <<caller, jsmod, late, mem, wrapped, memsync>>
    \/ Txn(1) /\ UNCHANGED <<caller, jsmod, late, mem, wrapped, memsync>>
    \/ CloseDec(1) /\ UNCHANGED <<caller, jsmod, late, mem, wrapped, memsync>>
    \/ ClosePhys(1) /\ UNCHANGED <<caller, jsmod, late, mem, wrapped, memsync>>
    \/ CloseFails(1) /\ UNCHANGED <<caller, jsmod, promise, seen, mem, wrapped, memsync>>

SpecEngine == Init /\ [][NextEngine]_vars

----------------------------------------------------------------------------
(* A DiskStore and a MemoryStore written independently of each other, and  *)
(* listed with every order in which the range loop over the Go map can     *)
(* give the keys.                                                          *)

\* The most calls made on the two stores together.
MaxPairCalls == 6

\* sort.Strings that leaves the slice as it is.
SortStringsNone(q) == q

\* One pass of the sort: k is put before the first key that is not less.
RECURSIVE InsertKey(_, _)
InsertKey(k, sorted) ==
    IF sorted = <<>> THEN <<k>>
    ELSE IF KeyLess(Head(sorted), k) THEN <<Head(sorted)>> \o InsertKey(k, Tail(sorted))
    ELSE <<k>> \o sorted

\* memory.go 101: sort.Strings(keys), on the slice in the order the range
\* loop appended the keys.
RECURSIVE SortStrings(_)
SortStrings(q) ==
    IF q = <<>> THEN <<>> ELSE InsertKey(Head(q), SortStrings(Tail(q)))

\* memory.go 95-100: the orders in which the range loop over the map can
\* give the keys with the prefix; Go leaves the order of a map open.
RangeOrders(c, prefix) ==
    LET keys == {k \in LiveKeys(c) : prefix = <<>> \/ HasPrefix(k, prefix)}
    IN  {q \in [1..Cardinality(keys) -> keys] :
            \A i, j \in DOMAIN q : i # j => q[i] # q[j]}

\* memory.go 90-121, with the slice that the range loop made.
MemListRange(c, walk, limit) ==
    Result("List", "", MemTake(SortStrings(walk), c, limit, 0))

\* The writes made on either store.
PairWrites ==
    {SetOp(<<1>>, StringValue(<<7>>)), SetOp(<<2>>, BytesValue(<<7>>)),
     SetOp(<<1, 1>>, BytesValue(<<>>)), DeleteOp(<<1>>), DeleteOp(<<2>>), ClearOp}

\* A DiskStore that its first operation has opened (an empty file), and an
\* empty MemoryStore.
InitPair ==
    /\ opened = TRUE
    /\ refCount = 1
    /\ lock = 0
    /\ handle = "open"
    /\ bucket = TRUE
    /\ data = EmptyData
    /\ pc = [t \in Threads |-> "idle"]
    /\ op = [t \in Threads |-> NoOp]
    /\ res = [t \in Threads |-> NoResult]
    /\ nOps = 0
    /\ nClose = 0
    /\ nOpened = 1
    /\ nPhysOpen = 1
    /\ log = <<>>
    /\ want = EmptyData
    /\ mwant = EmptyData
    /\ container = EmptyData
    /\ mres = NoResult
    /\ serializer = "json"
    /\ scall = NoCall
    /\ sent = [k \in SerKeys |-> NotSent]
    /\ mu = Unlocked
    /\ scan = [t \in Threads |-> <<>>]
    /\ linear = EmptyData
    /\ expect = [t \in Threads |-> NoResult]
    /\ wrote = {}
    /\ rmStore = 0
    /\ stores = [s \in Threads |-> NoStore]
    /\ kvs = [t \in Threads |-> NoKV]
    /\ opts = [t \in Threads |-> NoOptions]
    /\ leaked = 0
    /\ promise = [t \in Threads |-> NoPromise]
    /\ seen = [t \in Threads |-> 0]

\* An operation on the open DiskStore, from its call to its return: open()
\* takes a reference (disk.go 46-48), then the transaction.
PairDisk(o) ==
    /\ refCount' = refCount + 1
    /\ nOpened' = nOpened + 1
    /\ data' = Outcome(o, handle, bucket, data).data
    /\ res' = [res EXCEPT ![1] = Outcome(o, handle, bucket, data).res]
    /\ op' = [op EXCEPT ![1] = o]
    /\ UNCHANGED <<opened, lock, handle, bucket, pc, nClose, nPhysOpen>>

\* The caller writes to the DiskStore.
PairDiskWrite ==
    /\ nOps < MaxPairCalls
    /\ nOps' = nOps + 1
    /\ \E o \in PairWrites : PairDisk(o)
    /\ UNCHANGED <<caller, jsmod, late, mem, wrapped, memsync>>

\* The caller writes to the MemoryStore.
PairMemWrite ==
    /\ nOps < MaxPairCalls
    /\ nOps' = nOps + 1
    /\ \E o \in PairWrites : MemApply(o)
    /\ UNCHANGED <<shared, file, procs, nClose, nOpened, nPhysOpen, caller,
                   jsmod, late, wrapped, memsync>>

\* The caller lists both stores with the same prefix and limit; scan keeps
\* the order in which the range loop gave the keys of the map.
PairList(prefix, limit) ==
    /\ nOps < MaxPairCalls
    /\ nOps' = nOps + 1
    /\ PairDisk(ListOp(prefix, limit))
    /\ \E walk \in RangeOrders(container, prefix) :
         /\ scan' = [scan EXCEPT ![1] = walk]
         /\ mres' = MemListRange(container, walk, limit)
    /\ UNCHANGED <<caller, jsmod, late, container, wrapped, mu, linear, expect, wrote>>

NextPair ==
    \/ PairDiskWrite
    \/ PairMemWrite
    \/ \E prefix \in {<<>>, <<1>>}, limit \in {0, 1, 2} : PairList(prefix, limit)

SpecPair == InitPair /\ [][NextPair]_vars

----------------------------------------------------------------------------
(* The VUs call openKv and the methods of their KV instances. OpenKv reads *)
(* and writes RootModule.store without a lock: its accesses are steps of   *)
(* their own. A call on a KV instance is awaited by the script and is one  *)
(* step.                                                                   *)

\* The options given to KV.List: none (null or undefined), or an object
\* with a prefix and, when hasLimit, a limit.
ListOptionsOf(given, prefix, hasLimit, limit) ==
    [given |-> given, prefix |-> prefix, hasLimit |-> hasLimit, limit |-> limit]
NoListOptions == ListOptionsOf(FALSE, <<>>, FALSE, 0)

\* ImportListOptions (kv.go 243-270): the zero ListOptions when no options
\* are given, and a zero Limit when the object has no limit.
ImportListOptions(o) ==
    IF ~o.given THEN [Prefix |-> <<>>, Limit |-> 0, limitSet |-> FALSE]
    ELSE IF ~o.hasLimit THEN [Prefix |-> o.prefix, Limit |-> 0, limitSet |-> FALSE]
    ELSE [Prefix |-> o.prefix, Limit |-> o.limit, limitSet |-> TRUE]

\* The calls made on a KV instance, with the value given to set.
KVCallOf(kind, key, arg, limit) == [kind |-> kind, key |-> key, arg |-> arg, limit |-> limit]
KVCalls ==
    {KVCallOf("Set", k, GoString(<<97>>), 0) : k \in {<<>>, <<1>>}}
      \cup {KVCallOf("Set", <<1>>, GoNaN, 0)}
      \cup {KVCallOf("Get", <<1>>, GoNil, 0)}
      \cup {KVCallOf("Delete", <<1>>, GoNil, 0), KVCallOf("Exists", <<1>>, GoNil, 0),
            KVCallOf("Clear", <<>>, GoNil, 0), KVCallOf("Size", <<>>, GoNil, 0),
            KVCallOf("List", ImportListOptions(NoListOptions).Prefix, GoNil,
                     ImportListOptions(NoListOptions).Limit)}

\* The call that the SerializedStore makes on its backend for the call c
\* (serialized_store.go 45-54 for Set: the value is serialized first).
BackendOp(c, ser) ==
    [kind |-> c.kind, key |-> c.key, limit |-> c.limit,
     val |-> IF c.kind = "Set" THEN BytesValue(Serialize(ser, c.arg).bytes) ELSE NilValue]

\* bolt.Open waits while another DB object holds the lock of the file.
FileFree(s) == \A u \in Threads \ {s} : stores[u].handle # "open"

\* The call o on the backend of the store st, d being the bucket of the
\* file: the result, the store and the bucket after the call.
BackendCall(st, o, d) ==
    IF st.backend = "memory"
    THEN [res |-> MemCall(o, st.container).res,
          st |-> [st EXCEPT !.container = MemCall(o, st.container).container],
          data |-> d]
    ELSE [res |-> Outcome(o, DiskOpened(st).handle, TRUE, d).res,
          st |-> DiskOpened(st),
          data |-> Outcome(o, DiskOpened(st).handle, TRUE, d).data]

\* SerializedCall that calls the backend before it looks at the error of
\* the serializer.
SerializedCallAlways(st, c, d) ==
    [res |-> IF c.kind = "Set" /\ Serialize(st.ser, c.arg).err # ""
             THEN Result("Set", "failed to serialize value", Nil)
             ELSE BackendCall(st, BackendOp(c, st.ser), d).res,
     st |-> BackendCall(st, BackendOp(c, st.ser), d).st,
     data |-> BackendCall(st, BackendOp(c, st.ser), d).data,
     called |-> TRUE]

\* The call c on the SerializedStore st (serialized_store.go 45-74): Set
\* returns the serializer's error without calling the backend; otherwise
\* the backend is called. called tells whether the backend was called.
SerializedCall(st, c, d) ==
    IF c.kind = "Set" /\ Serialize(st.ser, c.arg).err # ""
    THEN [res |-> Result("Set", "failed to serialize value", Nil),
          st |-> st, data |-> d, called |-> FALSE]
    ELSE [res |-> BackendCall(st, BackendOp(c, st.ser), d).res,
          st |-> BackendCall(st, BackendOp(c, st.ser), d).st,
          data |-> BackendCall(st, BackendOp(c, st.ser), d).data,
          called |-> TRUE]

\* KVSettle without the return that follows reject(err).
KVSettleFallsThrough(storeIsNil, err) ==
    IF storeIsNil THEN [resolved |-> 0, rejected |-> 1]
    ELSE IF err # "" THEN [resolved |-> 1, rejected |-> 1]
    ELSE [resolved |-> 1, rejected |-> 0]

\* The goroutine of a KV method (kv.go 43-56 and alike): the calls of the
\* promise's reject and resolve functions that it makes, given whether
\* k.store is nil and the error of the store's call ("" for nil).
KVSettle(storeIsNil, err) ==
    IF storeIsNil THEN [resolved |-> 0, rejected |-> 1]
    ELSE IF err # "" THEN [resolved |-> 0, rejected |-> 1]
    ELSE [resolved |-> 1, rejected |-> 0]

\* What the promise of the KV method settles with, r being what the backend
\* returned: Get and List decode (serialized_store.go 23-42, 77-112), the
\* other methods pass the result on.
KVAnswer(ser, r) ==
    IF r.err # "" THEN Result(r.kind, r.err, GoNil)
    ELSE CASE r.kind = "Get" ->
                Result("Get", Deserialize(ser, r.val).err, Deserialize(ser, r.val).val)
           [] r.kind = "List" ->
                Result("List", DecodeEntries(ser, r.val).err,
                       GoEntries(DecodeEntries(ser, r.val).items))
           [] OTHER -> r

\* OpenKv, module.go 83-89: the options are checked, a call with invalid
\* options throws; then RootModule.store is read.
OpenKv(t) ==
    /\ pc[t] = "idle"
    /\ nOps + nClose < MaxKvCalls
    /\ \E o \in OpenKvOptions :
         /\ opts' = [opts EXCEPT ![t] = o]
         /\ IF NewOptionsFrom(o).err # ""
            THEN /\ res' = [res EXCEPT ![t] = Result("OpenKv", NewOptionsFrom(o).err, Nil)]
                 /\ pc' = pc
            ELSE /\ res' = res
                 /\ pc' = [pc EXCEPT ![t] = IF rmStore = 0 THEN "kv_make" ELSE "kv_new"]
    /\ seen' = [seen EXCEPT ![t] = rmStore]
    /\ op' = [op EXCEPT ![t] = OpenKvOp]
    /\ nOps' = nOps + 1
    /\ UNCHANGED <<shared, file, nClose, nOpened, nPhysOpen, caller, mem, wrapped,
                   memsync, leaked, promise, rmStore, stores, kvs>>

\* module.go 90-112: the store is constructed and RootModule.store is set.
OpenKvConstruct(t) ==
    /\ pc[t] = "kv_make"
    /\ stores' = [stores EXCEPT ![t] =
                    NewStore(NewOptionsFrom(opts[t]).backend,
                             NewOptionsFrom(opts[t]).serialization)]
    /\ rmStore' = t
    /\ pc' = [pc EXCEPT ![t] = "kv_new"]
    /\ UNCHANGED <<shared, file, op, res, hist, caller, mem, wrapped, memsync, late,
                   kvs, opts>>

\* module.go 115-118: NewKV(mi.vu, mi.rm.store) reads RootModule.store.
OpenKvNewKV(t) ==
    /\ pc[t] = "kv_new"
    /\ kvs' = [kvs EXCEPT ![t] = [store |-> rmStore, closed |-> FALSE]]
    /\ res' = [res EXCEPT ![t] = Result("OpenKv", "", Nil)]
    /\ pc' = [pc EXCEPT ![t] = "idle"]
    /\ UNCHANGED <<shared, file, op, hist, caller, mem, wrapped, memsync, late,
                   rmStore, stores, opts>>

\* KV.Get, Set, Delete, Exists, Clear, Size, List (kv.go 37-223) on the KV
\* instance of the VU; the promise is rejected when the KV has no store.
\* The notes in want are those of the calls that succeeded, on any KV.
KVCall(t) ==
    /\ pc[t] = "idle"
    /\ kvs[t].store # 0
    /\ nOps + nClose < MaxKvCalls
    /\ \E c \in KVCalls :
         LET s == kvs[t].store
             o == BackendOp(c, stores[s].ser)
             out == SerializedCall(stores[s], c, data)
             onDisk == stores[s].backend = "disk" /\ out.called
         IN  /\ (onDisk /\ ~stores[s].opened => FileFree(s))
             /\ op' = [op EXCEPT ![t] = o]
             /\ res' = [res EXCEPT ![t] = KVAnswer(stores[s].ser, out.res)]
             /\ promise' = [promise EXCEPT ![t] = KVSettle(FALSE, res'[t].err)]
             /\ stores' = [stores EXCEPT ![s] = out.st]
             /\ data' = out.data
             /\ bucket' = (bucket \/ onDisk)
             /\ want' = IF out.res.err = "" THEN Effect(o, want) ELSE want
    /\ nOps' = nOps + 1
    /\ UNCHANGED <<shared, pc, nClose, nOpened, nPhysOpen, log, mwant, mem, wrapped,
                   memsync, leaked, seen, rmStore, kvs, opts>>

\* KV.Close (kv.go 179-182): the Close of the store.
KVClose(t) ==
    /\ pc[t] = "idle"
    /\ kvs[t].store # 0
    /\ nOps + nClose < MaxKvCalls
    /\ LET s == kvs[t].store IN
         stores' = [stores EXCEPT ![s] =
                      IF @.backend = "disk" THEN DiskClosed(@) ELSE @]
    /\ kvs' = [kvs EXCEPT ![t].closed = TRUE]
    /\ op' = [op EXCEPT ![t] = CloseOp]
    /\ res' = [res EXCEPT ![t] = Result("Close", "", Nil)]
    /\ nClose' = nClose + 1
    /\ UNCHANGED <<shared, file, pc, nOps, nOpened, nPhysOpen, caller, mem, wrapped,
                   memsync, late, rmStore, opts>>

NextKv ==
    \E t \in Threads :
        \/ OpenKv(t)
        \/ OpenKvConstruct(t)
        \/ OpenKvNewKV(t)
        \/ KVCall(t)
        \/ KVClose(t)

SpecKv == Init /\ [][NextKv]_vars

----------------------------------------------------------------------------
(* KV.List on a store that holds many keys: the file of the disk backend   *)
(* is kept from one test run to the next, and openKv() finds in it the     *)
(* entries that earlier runs have set.                                     *)

\* The number of keys of the largest file.
ManyKeys == 1001

\* kv.go 187: "The returned list is limited to 1000 entries by default."
DocumentedListLimit == 1000

\* The most calls of KV.List.
MaxListCalls == 3

\* The i-th key of two bytes below 32, in ascending byte order.
BigKey(i) == <<(i - 1) \div 32, (i - 1) % 32>>
BigOrder == [i \in 1..(32 * 32) |-> BigKey(i)]

\* The bucket that holds the first n of these keys, each with the JSON
\* text "1".
FileWith(n) == [k \in {BigKey(i) : i \in 1..n} |-> <<49>>]
ListFileSizes == {0, 1, 2, ManyKeys - 1, ManyKeys}

\* The loop of List over the keys in ascending order (disk.go 259-278,
\* memory.go 94-118) on a store whose keys are among BigOrder: the entries
\* with the prefix, the first limit of them when limit > 0.
BulkList(d, prefix, limit) ==
    LET keys == SelectSeq(BigOrder,
                    LAMBDA k : /\ k \in DOMAIN d
                               /\ d[k] # NoVal
                               /\ (prefix = <<>> \/ HasPrefix(k, prefix)))
        n == IF limit > 0 /\ limit < Len(keys) THEN limit ELSE Len(keys)
    IN  [i \in 1..n |-> [Key |-> keys[i], Value |-> d[keys[i]]]]

\* serialized_store.go 85-109 on the entries es: an error when a value
\* cannot be decoded, else the entries with the decoded values.
BulkDecode(ser, es) ==
    IF \E i \in 1..Len(es) : Deserialize(ser, es[i].Value).err # ""
    THEN [err |-> "failed to deserialize value for key", items |-> <<>>]
    ELSE [err |-> "",
          items |-> [i \in 1..Len(es) |->
                       [Key |-> es[i].Key, Value |-> Deserialize(ser, es[i].Value).val]]]

\* The options given to KV.List.
ListOptionsGiven ==
    {NoListOptions}
      \cup {ListOptionsOf(TRUE, p, FALSE, 0) : p \in {<<>>, <<0>>}}
      \cup {ListOptionsOf(TRUE, p, TRUE, l) :
               p \in {<<>>, <<0>>}, l \in {-1, 1, DocumentedListLimit}}

\* KV.List (kv.go 191-223) with the options o on the KV instance of the
\* VU: ImportListOptions, the List of the store, and the entries given to
\* the promise.
KVList(t, o) ==
    /\ pc[t] = "idle"
    /\ kvs[t].store # 0
    /\ nOps + nClose < MaxListCalls
    /\ LET s == kvs[t].store
           lo == ImportListOptions(o)
           onDisk == stores[s].backend = "disk"
           raw == BulkList(IF onDisk THEN data ELSE stores[s].container,
                           lo.Prefix, lo.Limit)
           dec == BulkDecode(stores[s].ser, raw)
       IN  /\ (onDisk /\ ~stores[s].opened => FileFree(s))
           /\ op' = [op EXCEPT ![t] = ListOp(lo.Prefix, lo.Limit)]
           /\ res' = [res EXCEPT ![t] =
                        IF dec.err # "" THEN Result("List", dec.err, GoNil)
                        ELSE Result("List", "", GoEntries(dec.items))]
           /\ promise' = [promise EXCEPT ![t] = KVSettle(FALSE, res'[t].err)]
           /\ stores' = [stores EXCEPT ![s] = IF onDisk THEN DiskOpened(@) ELSE @]
    /\ nOps' = nOps + 1
    /\ UNCHANGED <<shared, file, pc, nClose, nOpened, nPhysOpen, caller, mem, wrapped,
                   memsync, leaked, seen, rmStore, kvs, opts>>

\* VU 1 has called openKv() with no options; the file holds the entries of
\* earlier runs.
InitList ==
    /\ opened = FALSE
    /\ refCount = 0
    /\ lock = 0
    /\ handle = "zero"
    /\ bucket = TRUE
    /\ \E n \in ListFileSizes : data = FileWith(n)
    /\ pc = [t \in Threads |-> "idle"]
    /\ op = [t \in Threads |-> NoOp]
    /\ res = [t \in Threads |-> NoResult]
    /\ nOps = 0
    /\ nClose = 0
    /\ nOpened = 0
    /\ nPhysOpen = 0
    /\ log = <<>>
    /\ want = EmptyData
    /\ mwant = EmptyData
    /\ container = EmptyData
    /\ mres = NoResult
    /\ serializer = "json"
    /\ scall = NoCall
    /\ sent = [k \in SerKeys |-> NotSent]
    /\ mu = Unlocked
    /\ scan = [t \in Threads |-> <<>>]
    /\ linear = EmptyData
    /\ expect = [t \in Threads |-> NoResult]
    /\ wrote = {}
    /\ rmStore = 1
    /\ stores = [s \in Threads |->
                   IF s = 1 THEN NewStore(DefaultBackend, DefaultSerialization)
                   ELSE NoStore]
    /\ kvs = [t \in Threads |-> IF t = 1 THEN [store |-> 1, closed |-> FALSE] ELSE NoKV]
    /\ opts = [t \in Threads |-> NoOptions]
    /\ leaked = 0
    /\ promise = [t \in Threads |-> NoPromise]
    /\ seen = [t \in Threads |-> 0]

NextList == \E o \in ListOptionsGiven : KVList(1, o)

SpecList == InitList /\ [][NextList]_vars

----------------------------------------------------------------------------
(* Properties of the reference-counted lifecycle of DiskStore. *)

\* An operation that runs a transaction (a Set of an unsupported type
\* returns before it runs one).
RunsTxn(o) == ~(o.kind = "Set" /\ ~Supported(o.val))

CloseOk == Result("Close", "", Nil)

\* Entries of the log l among its first i that are in S.
CountIn(l, i, S) == Cardinality({j \in 1..i : l[j] \in S})
NumCloses(l) == CountIn(l, Len(l), {"close"})
NumOps(l) == CountIn(l, Len(l), {"ok", "err"})

\* The log is a run of operations followed by a run of Close calls.
OpsThenCloses(l) ==
    \A i, j \in 1..Len(l) : i < j /\ l[i] = "close" => l[j] = "close"

\* The caller made one Close for each operation that returned one of S, each
\* Close after the operation it stands for, and its last call was a Close.
Paired(l, S) ==
    /\ Len(l) >= 1
    /\ l[Len(l)] = "close"
    /\ \A i \in 1..Len(l) : CountIn(l, i, {"close"}) <= CountIn(l, i, S)
    /\ CountIn(l, Len(l), {"close"}) = CountIn(l, Len(l), S)

\* C1: the physical handle is open (the opened flag is set) if and only if
\* refCount > 0, under any interleaving of operations and Close calls.
\* Stated for the states in which no goroutine holds DiskStore.lock: inside
\* the lock the flag and the count are updated one after the other.
C1_OpenedIffReferenced ==
    lock = 0 => (opened <=> refCount > 0)

\* C2: no transaction of Get/Set/Delete/Exists/Clear/Size/List is run
\* against a physically closed handle: an operation that has passed its open
\* step finds the handle open when it runs its transaction.
C2_TxnOnOpenHandle ==
    \A t \in Threads : pc[t] = "txn" /\ RunsTxn(op[t]) => handle = "open"

\* C3: refCount is never negative, also when Close calls run concurrently.
C3_RefCountNotNegative ==
    refCount >= 0

\* C4: concurrent first operations on an unopened store open the file once:
\* a physical open never starts while the handle is open, a further
\* physical open needs a Close call before it, and without any Close call
\* the file is opened exactly once however many calls passed open().
C4_OnePhysicalOpen ==
    /\ \A t \in Threads : pc[t] = "open_phys" => handle # "open"
    /\ nPhysOpen <= nClose + 1
    /\ (nClose = 0 /\ nOpened >= 1 => nPhysOpen = 1)

\* Two calls found the store unopened together: both passed open(), one of
\* them through the second check under the lock.
C4_Witness ==
    /\ nClose = 0
    /\ nOpened = 2
    /\ nPhysOpen = 1
    /\ refCount = 1
    /\ \A t \in Threads : pc[t] = "txn"

\* C5: every call whose open step succeeds adds exactly 1 to refCount, so
\* with no Close call refCount is the number of such calls, also when they
\* run concurrently.
C5_EveryOpenCounted ==
    nClose = 0 => refCount = nOpened

\* C6: whenever a physical open completes, refCount is 1 right after it.
C6_OneAfterPhysicalOpen ==
    [][\A t \in Threads :
          pc[t] = "open_incr" /\ pc'[t] = "txn" => refCount' = 1]_vars

\* C7: sequentially, after n >= 1 operations followed by m <= n Close calls,
\* refCount is n - m; while m < n the store is open and the Close returned
\* nil; at m = n the handle is closed and the flag cleared.
C7_CloseCountsDown ==
    (pc[1] = "idle" /\ OpsThenCloses(log) /\ NumOps(log) >= 1
        /\ NumCloses(log) <= NumOps(log))
    => /\ refCount = NumOps(log) - NumCloses(log)
       /\ (NumCloses(log) >= 1 => res[1] = CloseOk)
       /\ (NumCloses(log) < NumOps(log) => opened /\ handle = "open")
       /\ (NumCloses(log) = NumOps(log) => ~opened /\ handle = "closed")

\* Two operations, then two Close calls: the store went 2 -> 1 -> 0.
C7_Witness ==
    /\ pc[1] = "idle"
    /\ OpsThenCloses(log)
    /\ NumOps(log) = 2
    /\ NumCloses(log) = 2
    /\ handle = "closed"

\* C8: after a full close a further operation re-opens the file, the
\* physical open leaves refCount = 1 and the operation leaves it so, the
\* operation runs on an open handle, and a Get of a key whose last
\* successful Set came before the close returns that value.
C8_ReopenAfterClose ==
    [][/\ (pc[1] = "idle" /\ nOps' = nOps + 1 /\ handle = "closed"
              => pc'[1] = "open_lock")
       /\ (pc[1] = "open_lock" /\ handle = "closed" => pc'[1] = "open_phys")
       /\ (pc[1] = "open_incr" /\ pc'[1] = "txn"
              => refCount' = 1 /\ opened' /\ handle' = "open")
       /\ (pc[1] = "txn" /\ pc'[1] = "idle" /\ nPhysOpen >= 2
              => /\ refCount' = refCount
                 /\ res'[1].err \notin {"database not open", "bucket not found"}
                 /\ (op[1].kind = "Get" /\ want[op[1].key] # NoVal
                       => res'[1].err = "" /\ res'[1].val = want[op[1].key]))
      ]_vars

\* A Set, Close calls down to the full close, then a Get that re-opened the
\* file and returned the value.
C8_Witness ==
    /\ pc[1] = "idle"
    /\ nPhysOpen = 2
    /\ refCount = 1
    /\ Len(log) >= 3
    /\ log[Len(log) - 1] = "close"
    /\ res[1].kind = "Get"
    /\ res[1].err = ""
    /\ res[1].val = want[op[1].key]

\* C9 as claimed: a sequential caller that calls Close once for each
\* operation that returned successfully, and not for those that returned an
\* error, has the handle closed and refCount = 0 after its last Close.
C9_CloseOncePerSuccess ==
    pc[1] = "idle" /\ Paired(log, {"ok"})
    => handle # "open" /\ refCount = 0

\* C9 as amended: a sequential caller that calls Close once for each
\* operation it made, whether the operation returned a value or an error,
\* has the handle closed, the flag cleared and refCount = 0 after its last
\* Close.
C9_CloseOncePerOperation ==
    pc[1] = "idle" /\ Paired(log, {"ok", "err"})
    => handle = "closed" /\ ~opened /\ refCount = 0

\* The caller closed once per operation, one of which returned an error.
C9_Witness ==
    /\ pc[1] = "idle"
    /\ Paired(log, {"ok", "err"})
    /\ \E i \in 1..Len(log) : log[i] = "err"
    /\ \E i \in 1..Len(log) : log[i] = "ok"

\* C10: a Close of an unopened DiskStore (never opened, or fully closed)
\* returns nil at once and changes neither refCount, the flag, the handle
\* nor the file; MemoryStore.Close returns nil and changes no entry.
C10_CloseUnopenedNoOp ==
    [][nClose' = nClose + 1
         => /\ (~opened => /\ pc'[1] = "idle"
                           /\ res'[1] = CloseOk
                           /\ UNCHANGED <<opened, refCount, lock, handle, bucket, data>>)
            /\ mres' = CloseOk
            /\ container' = container
      ]_vars

\* Close was called twice in a row on a fully closed store holding a key.
C10_Witness ==
    /\ pc[1] = "idle"
    /\ Len(log) >= 3
    /\ log[Len(log)] = "close"
    /\ log[Len(log) - 1] = "close"
    /\ NumCloses(log) > NumOps(log)
    /\ handle = "closed"
    /\ refCount = 0
    /\ LiveKeys(container) # {}

----------------------------------------------------------------------------
(* Properties of the operations, for a caller that makes one call after    *)
(* the other on a DiskStore and on a MemoryStore.                          *)

\* The step in which a call of the given kind returns from the DiskStore.
DiskReturns(kind) == pc[1] = "txn" /\ pc'[1] = "idle" /\ op[1].kind = kind
\* The step in which a call of the given kind is made on, and returns from,
\* the MemoryStore.
MemReturns(kind) == nOps' = nOps + 1 /\ op'[1].kind = kind

\* C11: on both backends, after any sequence of Set/Delete/Clear, Get(k)
\* returns the bytes of the most recent successful Set(k, v) when no
\* Delete(k) or Clear came after it, and Exists(k) is true in exactly that
\* case; the notes are those of all earlier calls, so a mutation is visible
\* to the very next call.
C11_LastSetVisible ==
    [][/\ (DiskReturns("Get") /\ want[op[1].key] # NoVal
             => res'[1].err = "" /\ res'[1].val = want[op[1].key])
       /\ (DiskReturns("Exists")
             => res'[1].err = "" /\ res'[1].val = (want[op[1].key] # NoVal))
       /\ (MemReturns("Get") /\ mwant[op'[1].key] # NoVal
             => mres'.err = "" /\ mres'.val = mwant[op'[1].key])
       /\ (MemReturns("Exists")
             => mres'.err = "" /\ mres'.val = (mwant[op'[1].key] # NoVal))
      ]_vars

\* A Set of key <<1>> to <<7>> was one of two calls, and the Get that came
\* third returned <<7>> on both stores.
C11_Witness ==
    /\ pc[1] = "idle"
    /\ Len(log) = 3
    /\ op[1] = GetOp(<<1>>)
    /\ res[1] = Result("Get", "", <<7>>)
    /\ mres = Result("Get", "", <<7>>)
    /\ want[<<1>>] = <<7>>
    /\ mwant[<<1>>] = <<7>>

\* C12: on both backends Get(k) returns the not-found error whenever k was
\* never set or its most recent mutation is a Delete(k) or a Clear, and such
\* a Get changes no stored entry.
C12_GetAbsentFails ==
    [][/\ (DiskReturns("Get") /\ want[op[1].key] = NoVal
             => res'[1].err = "key not found" /\ data' = data /\ bucket' = bucket)
       /\ (MemReturns("Get") /\ mwant[op'[1].key] = NoVal
             => mres'.err = "key not found" /\ container' = container)
      ]_vars

\* A Get of key <<1>>, which is not there, failed on both stores while key
\* <<2>> stayed.
C12_Witness ==
    /\ pc[1] = "idle"
    /\ op[1] = GetOp(<<1>>)
    /\ res[1].err = "key not found"
    /\ mres.err = "key not found"
    /\ LiveKeys(data) = {<<2>>}
    /\ LiveKeys(container) = {<<2>>}

\* The entries r are what List(prefix, limit) is to return from a store
\* that holds w: live keys with the prefix only, each with its value, in
\* strictly ascending byte order, none skipped before the last one listed,
\* and as many as the limit allows.
IsListing(r, w, prefix, limit) ==
    LET matching == {k \in LiveKeys(w) : HasPrefix(k, prefix)}
        listed == {r[i].Key : i \in 1..Len(r)}
    IN  /\ listed \subseteq matching
        /\ \A i \in 1..Len(r) : r[i].Value = w[r[i].Key]
        /\ \A i, j \in 1..Len(r) : i < j => KeyLess(r[i].Key, r[j].Key)
        /\ \A k \in matching \ listed : \A j \in listed : KeyLess(j, k)
        /\ Len(r) = IF limit > 0 /\ limit < Cardinality(matching)
                    THEN limit ELSE Cardinality(matching)

\* C13: on both backends List(prefix, limit) returns the live entries whose
\* key starts with prefix (all of them when prefix is empty), each with its
\* current value, in ascending byte order of the keys, cut to the first
\* limit entries when limit > 0 and complete when limit <= 0.
C13_ListFilteredOrderedLimited ==
    [][/\ (DiskReturns("List")
             => res'[1].err = "" /\ IsListing(res'[1].val, want, op[1].key, op[1].limit))
       /\ (MemReturns("List")
             => mres'.err = "" /\ IsListing(mres'.val, mwant, op'[1].key, op'[1].limit))
      ]_vars

\* With keys <<1>>, <<1, 1>> and <<2>> in the store, List(<<1>>, 1) gave
\* the entry of <<1>> alone on both stores.
C13_Witness ==
    /\ pc[1] = "idle"
    /\ op[1] = ListOp(<<1>>, 1)
    /\ LiveKeys(data) = ShortKeys
    /\ LiveKeys(container) = ShortKeys
    /\ Len(res[1].val) = 1
    /\ res[1].val[1].Key = <<1>>
    /\ mres = res[1]

\* Two results are the same outcome: both calls failed, or both succeeded
\* with the same value (for List: the same entries in the same order).
SameOutcome(a, b) ==
    /\ (a.err = "") <=> (b.err = "")
    /\ (a.err = "" /\ b.err = "" => a.val = b.val)

\* C14: a MemoryStore and a DiskStore that start empty and are given the
\* same sequence of Set (byte or text values, non-empty keys), Delete,
\* Clear, Get, Exists, Size and List calls return the same outcome at every
\* step. A key of any length is a non-empty key.
C14_SameOutcomeOnBothBackends ==
    (pc[1] = "idle" /\ op[1].kind \notin {"none", "Close"} /\ RunsTxn(op[1]))
    => SameOutcome(res[1], mres)

\* The call in progress is a Set of a value that is neither bytes nor text.
\* (On the MemoryStore such a call is over in the step that makes it.)
RefusedSetRuns ==
    \/ pc[1] # "idle" /\ op[1].kind = "Set" /\ ~Supported(op[1].val)
    \/ MemReturns("Set") /\ ~Supported(op'[1].val)

\* C16: on both backends Set(k, v) with a value that is neither a byte
\* sequence nor text returns an error and leaves every stored entry,
\* including the value k had, unchanged: no step of the call changes an
\* entry.
C16_UnsupportedValueRefused ==
    [][/\ (DiskReturns("Set") /\ ~Supported(op[1].val) => res'[1].err # "")
       /\ (MemReturns("Set") /\ ~Supported(op'[1].val) => mres'.err # "")
       /\ (RefusedSetRuns => data' = data /\ container' = container)
      ]_vars

\* A Set of key <<1>>, which holds <<7>>, with a value of another type
\* failed on both stores and the key holds <<7>> as before.
C16_Witness ==
    /\ pc[1] = "idle"
    /\ op[1] = SetOp(<<1>>, OtherValue(<<>>))
    /\ res[1].err = "unsupported value type"
    /\ mres.err = "unsupported value type"
    /\ data[<<1>>] = <<7>>
    /\ container[<<1>>] = <<7>>

\* What Size() returns from a DiskStore whose bucket holds d, and from a
\* MemoryStore whose container is c.
DiskSizeOf(d) == DiskTxn(SizeOp, TRUE, d).res.val
MemSizeOf(c) == MemSize(c).res.val

\* By how much a successful call o changes the number of live keys of a
\* store of which the caller noted w.
SizeChange(o, w) ==
    CASE o.kind = "Set"    -> IF w[o.key] = NoVal THEN 1 ELSE 0
      [] o.kind = "Delete" -> IF w[o.key] = NoVal THEN 0 ELSE -1
      [] o.kind = "Clear"  -> 0 - Cardinality(LiveKeys(w))
      [] OTHER             -> 0

\* C17: on both backends Size() is the number of distinct live keys (set
\* and not removed since by Delete or Clear): a Set of a new key raises it
\* by 1, a Set of an existing key and a Delete of an absent key leave it,
\* a Delete of a present key lowers it by 1.
C17_SizeCountsLiveKeys ==
    [][/\ (DiskReturns("Size")
             => res'[1].err = "" /\ res'[1].val = Cardinality(LiveKeys(want)))
       /\ (MemReturns("Size")
             => mres'.err = "" /\ mres'.val = Cardinality(LiveKeys(mwant)))
       /\ (pc[1] = "txn" /\ pc'[1] = "idle" /\ res'[1].err = ""
             => DiskSizeOf(data') = DiskSizeOf(data) + SizeChange(op[1], want))
       /\ (nOps' = nOps + 1 /\ mres'.err = ""
             => MemSizeOf(container') = MemSizeOf(container) + SizeChange(op'[1], mwant))
      ]_vars

\* The fifth call, Size(), returned 2 on both stores, one of the two keys
\* holding the empty value.
C17_Witness ==
    /\ pc[1] = "idle"
    /\ Len(log) = 5
    /\ op[1] = SizeOp
    /\ res[1] = Result("Size", "", 2)
    /\ mres = Result("Size", "", 2)
    /\ \E k \in ShortKeys : data[k] = <<>> /\ container[k] = <<>>

\* What the call o returns from the open DiskStore when the file holds d.
DiskAnswer(o, d) == Outcome(o, "open", TRUE, d).res

\* C18: on both backends Clear succeeds on a store with entries and on an
\* empty one, and after it Size() is 0, List with the empty prefix and limit
\* 0 is empty and Get fails for every key. For the DiskStore the three are
\* the answers to the content the Clear leaves; for the MemoryStore they
\* are the answers of the call made next.
C18_ClearEmptiesStore ==
    [][/\ (DiskReturns("Clear")
             => /\ res'[1].err = ""
                /\ DiskAnswer(SizeOp, data') = Result("Size", "", 0)
                /\ DiskAnswer(ListOp(<<>>, 0), data') = Result("List", "", <<>>)
                /\ \A k \in Keys : DiskAnswer(GetOp(k), data').err # ""
                /\ DiskAnswer(ClearOp, data').err = "")
       /\ (MemReturns("Clear") => mres'.err = "")
       /\ (op[1].kind = "Clear" /\ mres.err = ""
             => /\ (MemReturns("Size") => mres' = Result("Size", "", 0))
                /\ (MemReturns("List") => mres' = Result("List", "", <<>>))
                /\ (MemReturns("Get") => mres'.err # "")
                /\ (MemReturns("Clear") => mres'.err = "" /\ LiveKeys(container') = {}))
      ]_vars

\* The MemoryStore, which held two keys, has been cleared and the Clear of
\* the DiskStore, which holds them still, is about to commit.
C18_Witness ==
    /\ pc[1] = "txn"
    /\ op[1] = ClearOp
    /\ Cardinality(LiveKeys(data)) = 2
    /\ LiveKeys(data) = LiveKeys(want)
    /\ mres = Result("Clear", "", Nil)
    /\ LiveKeys(container) = {}

\* The content e is the content d without the key k, all else as it was.
OnlyRemoved(d, e, k) ==
    /\ DOMAIN e = DOMAIN d
    /\ k \in DOMAIN d => e[k] = NoVal
    /\ \A j \in DOMAIN d \ {k} : e[j] = d[j]

\* C19: on both backends Delete(k) succeeds whether or not k is there,
\* removes k only and leaves the value of every other key; a second
\* Delete(k) returns what the first returned and leaves the entries as the
\* first left them. (The state meant is the stored entries: a DiskStore
\* counts every call in refCount.)
C19_DeleteOnlyKeyIdempotent ==
    [][/\ (DiskReturns("Delete")
             => /\ res'[1] = Result("Delete", "", Nil)
                /\ OnlyRemoved(data, data', op[1].key)
                /\ Outcome(op[1], "open", TRUE, data') = [res |-> res'[1], data |-> data'])
       /\ (MemReturns("Delete")
             => /\ mres' = Result("Delete", "", Nil)
                /\ OnlyRemoved(container, container', op'[1].key)
                /\ (op[1] = op'[1] => mres' = mres /\ container' = container))
      ]_vars

\* Delete(<<1>>) has removed the key from the MemoryStore and is about to
\* commit on the DiskStore, which holds it still; key <<1, 1>> holds <<7>>
\* on both.
C19_Witness ==
    /\ pc[1] = "txn"
    /\ op[1] = DeleteOp(<<1>>)
    /\ data[<<1>>] # NoVal
    /\ container[<<1>>] = NoVal
    /\ data[<<1, 1>>] = <<7>>
    /\ container[<<1, 1>>] = <<7>>

----------------------------------------------------------------------------
(* Properties of the SerializedStore. *)

\* The step in which Get(k) returns from the SerializedStore, for a key
\* whose last successful Set was made under the serializer bound now.
GetAfterSet(k) ==
    /\ scall'.kind = "Get"
    /\ scall'.key = k
    /\ UNCHANGED <<serializer, sent>>
    /\ sent[k].set
    /\ sent[k].ser = serializer

JSONImageScalar(v, r) ==
    CASE v.type = "int64"  -> r = GoFloat(v.num)
      [] v.type = "[]byte" -> r.type = "string"
      [] OTHER             -> r = v

JSONImage(v, r) ==
    IF v.type = "[]any"
    THEN /\ r.type = "[]any"
         /\ Len(r.items) = Len(v.items)
         /\ \A i \in 1..Len(v.items) : JSONImageScalar(v.items[i], r.items[i])
    ELSE JSONImageScalar(v, r)

\* The value holds a NaN, which JSON cannot write.
HoldsNaN(v) == v.nan \/ \E i \in 1..Len(v.items) : v.items[i].nan

----------------------------------------------------------------------------
(* Properties of the MemoryStore under concurrent callers. *)

\* The goroutine is inside the critical section of its method.
InCritical(t) == pc[t] \in {"m_vals", "m_unlock"}

\* C20: under any interleaving of concurrent Get/Set/Delete/Exists/Clear/
\* Size/List callers the execution is linearizable. Each call takes effect
\* at one point between its invocation and its return (when it has the
\* lock), and the calls made one by one in the order of these points on a
\* store of their own (linear) return what the concurrent calls return.
\* A writer is alone in its critical section, and a successful Get(k)
\* returns bytes that a Set(k, ..) made before the Get returned wrote.
C20_Linearizable ==
    /\ \A t \in Threads :
          pc[t] = "idle" /\ op[t].kind # "none" => res[t] = expect[t]
    /\ container = linear
    /\ \A t, u \in Threads :
          t # u /\ InCritical(t) /\ Writes(op[t]) => ~InCritical(u)
    /\ \A t \in Threads :
          (pc[t] \in {"m_unlock", "idle"} /\ op[t].kind = "Get" /\ res[t].err = "")
          => <<op[t].key, res[t].val>> \in wrote

\* Goroutine 1 holds the read lock in Get(<<1>>), which found <<7>>, while
\* goroutine 2 has called Set(<<1>>, empty) and waits for the lock.
C20_Witness ==
    /\ pc[1] = "m_unlock"
    /\ op[1] = GetOp(<<1>>)
    /\ res[1] = Result("Get", "", <<7>>)
    /\ mu.r = {1}
    /\ pc[2] = "m_lock"
    /\ op[2] = SetOp(<<1>>, BytesValue(<<>>))

\* The goroutine is between the RLock and the RUnlock of a List.
InList(t) == InCritical(t) /\ op[t].kind = "List"

\* C21: a List that runs beside Set/Delete/Clear callers returns the
\* filtered, sorted contents the store has at one instant between its call
\* and its return. The store does not change from the moment the List has
\* its read lock until it releases it, so the keys it collected and the
\* values it reads belong to the same contents, what it returns is the
\* listing of the contents at the step that reads the values, and no writer
\* is in its critical section while the List holds the read lock.
C21_ListIsSnapshot ==
    [][\A t \in Threads :
         /\ (InList(t) => container' = container)
         /\ (pc[t] = "m_vals" /\ pc'[t] = "m_unlock"
               => /\ res'[t].err = ""
                  /\ IsListing(res'[t].val, container, op[t].key, op[t].limit))
         /\ (InList(t)
               => /\ t \in mu.r
                  /\ mu.w = 0
                  /\ \A u \in Threads : Writes(op[u]) => ~InCritical(u))
      ]_vars

\* Goroutine 1 is in List("", 0): it has the read lock and has read the
\* entry of <<1>>, while goroutine 2 has called Clear and waits for the
\* lock.
C21_Witness ==
    /\ pc[1] = "m_unlock"
    /\ op[1] = ListOp(<<>>, 0)
    /\ res[1].val = <<[Key |-> <<1>>, Value |-> <<7>>]>>
    /\ mu.r = {1}
    /\ pc[2] = "m_lock"
    /\ op[2] = ClearOp
    /\ LiveKeys(container) = {<<1>>}

\* The goroutine holds mu, for writing or for reading.
HoldsMu(t) == mu.w = t \/ t \in mu.r

\* Some goroutine that is inside a call can take its next step.
SomeCallCanStep ==
    \E t \in Threads :
        ENABLED (MemEnter(t) \/ MemListValues(t) \/ MemLeave(t))

\* C22: goroutines that make their calls (Get, Set and the others) on one
\* MemoryStore all terminate under fair scheduling. Every call that was
\* made returns, a goroutine that has returned holds no lock, whatever the
\* call returned (the Set of a value of an unsupported type included), in
\* the end every goroutine has returned and mu is free, and as long as a
\* call is under way some goroutine can step: there is no deadlock.
C22_EveryCallReturns ==
    /\ \A t \in Threads : (pc[t] # "idle") ~> (pc[t] = "idle")
    /\ [](\A t \in Threads : pc[t] = "idle" => ~HoldsMu(t))
    /\ []((\E t \in Threads : pc[t] # "idle") => SomeCallCanStep)
    /\ <>[](mu = Unlocked /\ \A t \in Threads : pc[t] = "idle")

\* Goroutine 1 has returned from the Set of a value of an unsupported type
\* with the error, and goroutine 2 has the write lock in its own Set.
C22_Witness ==
    /\ pc[1] = "idle"
    /\ op[1] = SetOp(<<1>>, OtherValue(<<7>>))
    /\ res[1].err = "unsupported value type"
    /\ pc[2] = "m_unlock"
    /\ op[2] = SetOp(<<1>>, StringValue(<<7>>))
    /\ mu = [w |-> 2, r |-> {}]

----------------------------------------------------------------------------
(* Properties of the serializer binding of the SerializedStore. *)

\* The call c (Set, Get or List) was made with serializer ser on a backend
\* that held before and holds after: what was stored is the encoding by
\* ser, what was returned is the decoding by ser.
MadeWith(c, ser, before, after) ==
    CASE c.kind = "Set" ->
           IF Serialize(ser, c.arg).err = ""
           THEN /\ c.err = ""
                /\ after[c.key] = Serialize(ser, c.arg).bytes
                /\ \A j \in Keys \ {c.key} : after[j] = before[j]
           ELSE c.err # "" /\ after = before
      [] c.kind = "Get" ->
           /\ after = before
           /\ IF before[c.key] = NoVal THEN c.err = "key not found"
              ELSE /\ c.err = Deserialize(ser, before[c.key]).err
                   /\ c.val = Deserialize(ser, before[c.key]).val
      [] c.kind = "List" ->
           LET raw == MemList(before, c.key, c.arg.num).res.val IN
           /\ after = before
           /\ IF \E i \in 1..Len(raw) : Deserialize(ser, raw[i].Value).err # ""
              THEN c.err # ""
              ELSE /\ c.err = ""
                   /\ Len(c.val.items) = Len(raw)
                   /\ \A i \in 1..Len(raw) :
                         /\ c.val.items[i].Key = raw[i].Key
                         /\ c.val.items[i].Value = Deserialize(ser, raw[i].Value).val
      [] OTHER -> FALSE

\* C23: SetSerializer changes the serializer binding and nothing else: the
\* bytes stored in the backend stay as they are (nothing is encoded again)
\* and what the backend last returned too. Every Set, Get and List made
\* after the swap encodes and decodes with the serializer that the swap
\* put in place (the binding at the time of the call).
C23_SwapChangesBindingOnly ==
    [][/\ (serializer' # serializer
             => /\ container' = container
                /\ mres' = mres
                /\ scall' = scall
                /\ sent' = sent)
       /\ (serializer' = serializer
             => MadeWith(scall', serializer, container, container'))
      ]_vars

\* The text "42" was set under the JSON serializer, the serializer was
\* swapped, and Get under the string serializer returned the stored bytes
\* as they are: the text with its JSON quotes.
C23_Witness ==
    /\ serializer = "string"
    /\ scall.kind = "Get"
    /\ scall.key = <<1>>
    /\ sent[<<1>>] = Sent(GoString(<<52, 50>>), "json")
    /\ container[<<1>>] = <<34, 52, 50, 34>>
    /\ scall.err = ""
    /\ scall.val = GoString(<<34, 52, 50, 34>>)

----------------------------------------------------------------------------
(* Properties of DiskStore when the engine fails. *)

\* Goroutine 1 returns from Clear in this step.
ClearReturns == pc[1] = "txn" /\ pc'[1] = "idle" /\ op[1].kind = "Clear"

\* C24: when a deletion fails part-way through DiskStore.Clear (the key is
\* a nested bucket, which bucket.Delete refuses), Clear returns an error and
\* the bucket is as it was before the call: the deletions the call had made
\* are rolled back. A Clear that returns an error has removed no key, one
\* that returns no error has removed them all.
C24_ClearAllOrNothing ==
    [][ClearReturns
         => /\ ((\E k \in Keys : data[k] = SubBucket) => res'[1].err # "")
            /\ (res'[1].err # "" => data' = data)
            /\ (res'[1].err = "" => LiveKeys(data') = {})
      ]_vars

\* Clear has returned an error: it had deleted <<1>> when the deletion of
\* the nested bucket <<2>> failed, and <<1>> is in the bucket.
C24_Witness ==
    /\ pc[1] = "idle"
    /\ op[1] = ClearOp
    /\ res[1].err = "incompatible value"
    /\ data[<<1>>] = <<7>>
    /\ data[<<2>>] = SubBucket

----------------------------------------------------------------------------
(* Properties of the JS module and of the KV instances. *)

\* The VUs that hold a KV instance of the store s.
KVsOf(s) == {t \in Threads : kvs[t].store = s}

\* What the store s holds: the container of its MemoryStore, or the bucket
\* of the file of its DiskStore.
ContentOf(s) == IF stores[s].backend = "memory" THEN stores[s].container ELSE data

\* C25: with the disk backend the database is physically open from the
\* creation of the first KV instance by OpenKv until the last KV instance
\* is closed with KV.Close, and physically closed from then on: as soon as
\* a store has KV instances, its bolt.DB is open exactly when one of them
\* is not closed.
C25_OpenFromFirstKVToLastClose ==
    \A s \in Threads :
        (stores[s].backend = "disk" /\ KVsOf(s) # {})
        => (stores[s].handle = "open" <=> \E t \in KVsOf(s) : ~kvs[t].closed)

\* C26: the KV instances that OpenKv creates from the module instances of
\* one RootModule use one store: at most one store is ever constructed,
\* also when the VUs run OpenKv at the same time, every KV instance holds
\* it, and it holds what the calls made through all the KV instances have
\* written (a Get through one KV returns the value Set through another).
C26_OneSharedStore ==
    /\ Cardinality({s \in Threads : stores[s].made}) <= 1
    /\ \A t, u \in Threads :
          (kvs[t].store # 0 /\ kvs[u].store # 0) => kvs[t].store = kvs[u].store
    /\ \A t \in Threads : kvs[t].store # 0 => ContentOf(kvs[t].store) = want

\* The options name a backend and a serialization that exist.
ValidOptions(o) ==
    \/ o = NoOptions
    \/ o.backend \in {"memory", "disk"} /\ o.serialization \in {"json", "string"}

\* C27: OpenKv with a backend other than "memory" and "disk", or with a
\* serialization other than "json" and "string", fails with an error about
\* the options: no store is constructed, no KV instance is created, and
\* RootModule.store is as before the call. A VU goes on to construct a
\* store or a KV instance only with valid options.
C27_InvalidOptionsRefused ==
    /\ [][\A t \in Threads :
            (OpenKv(t) /\ ~ValidOptions(opts'[t]))
            => /\ res'[t].kind = "OpenKv"
               /\ res'[t].err \in {"invalid backend", "invalid serialization"}
               /\ pc'[t] = "idle"
               /\ rmStore' = rmStore
               /\ stores' = stores
               /\ kvs' = kvs]_vars
    /\ [](\A t \in Threads :
            pc[t] \in {"kv_make", "kv_new"} => ValidOptions(opts[t]))

\* VU 1 has a KV instance on the store it constructed, and the openKv of
\* VU 2 with the serialization "xml" has failed: the store of VU 1 is the
\* only one, and VU 2 has no KV instance.
C27_Witness ==
    /\ rmStore = 1
    /\ kvs[1].store = 1
    /\ pc[2] = "idle"
    /\ op[2] = OpenKvOp
    /\ opts[2] = [backend |-> "memory", serialization |-> "xml"]
    /\ res[2] = Result("OpenKv", "invalid serialization", Nil)
    /\ ~stores[2].made
    /\ kvs[2] = NoKV

\* C28: a Get, Set, Delete, Exists, Clear, Size or List on a KV instance
\* that has no open database (it has no store, or Close was called on it)
\* is rejected with DatabaseNotOpenError.
C28_ClosedKVRejects ==
    [][\A t \in Threads :
         (KVCall(t) /\ (kvs[t].store = 0 \/ kvs[t].closed))
         => res'[t].err = "DatabaseNotOpenError"]_vars

\* C29: a Set with an empty key is rejected with KeyRequiredError on both
\* backends, and no store holds an entry whose key is empty.
C29_NoEmptyKey ==
    /\ \A s \in Threads : stores[s].made => <<>> \notin LiveKeys(ContentOf(s))
    /\ \A t \in Threads :
          (pc[t] = "idle" /\ op[t].kind = "Set" /\ op[t].key = <<>>)
          => res[t].err = "KeyRequiredError"

\* C30: KV.List called without a limit option returns at most 1000
\* entries, however many keys the store holds.
C30_ListDefaultLimit ==
    [][\A t \in Threads : \A o \in ListOptionsGiven :
         (KVList(t, o) /\ ~o.hasLimit)
         => /\ res'[t].err = ""
            /\ Len(res'[t].val.items) <= DocumentedListLimit]_vars

----------------------------------------------------------------------------
(* Failures of the engine in DiskStore.open and DiskStore.Close. *)

\* C31: when open() fails, at bolt.Open or at the creation of the bucket,
\* the operation returns an error, the store stays unopened with refCount
\* as it was, the lock is free, and no DB holds the file, so that the
\* bolt.Open of a later operation does not wait.
C31_FailedOpenLeavesNothing ==
    [][(OpenFails(1) \/ BucketFails(1)) =>
         /\ res'[1].err # ""
         /\ ~opened'
         /\ refCount' = refCount
         /\ lock' = 0
         /\ handle' # "open"
         /\ leaked' = 0]_vars

\* C32: when the engine's close fails inside Close, Close returns the error
\* and leaves the flag and refCount as they were before the call (the call
\* took one reference off at disk.go 299, so refCount was one more), and an
\* open store still has a reference.
C32_FailedCloseLeavesState ==
    [][CloseFails(1) =>
         /\ res'[1].err # ""
         /\ opened' = opened
         /\ refCount' = refCount + 1
         /\ (opened' => refCount' > 0)]_vars

----------------------------------------------------------------------------
(* The mutual exclusion that DiskStore.lock gives. *)

\* The goroutine is in the part of open() or Close that runs under the lock
\* after the checks: the physical open or the physical close.
InPhysical(t) == pc[t] \in {"open_phys", "open_store", "open_incr", "close_phys"}

\* The goroutine waits for DiskStore.lock.
WaitsForLock(t) == pc[t] \in {"open_lock", "close_lock"}

----------------------------------------------------------------------------
(* What the reading operations leave alone. *)

\* The operations that read.
ReadKinds == {"Get", "Exists", "Size", "List"}

\* C34: no step of a Get, Exists, Size or List changes the entries of the
\* DiskStore's bucket or of the MemoryStore's container. On the DiskStore
\* such a call changes the lifecycle state only: the file's bucket is made
\* by the physical open and by no other step, and the lock is free when
\* the call has returned.
C34_ReadsChangeNoEntry ==
    [][op'[1].kind \in ReadKinds =>
         /\ data' = data
         /\ container' = container
         /\ (bucket' # bucket => pc[1] = "open_phys")
         /\ (pc'[1] = "idle" => lock' = 0)]_vars

\* A List has returned the entry that both stores hold, having opened
\* the DiskStore again after a Close.
C34_Witness ==
    /\ pc[1] = "idle"
    /\ res[1] = Result("List", "", <<[Key |-> <<1>>, Value |-> <<7>>]>>)
    /\ mres = res[1]
    /\ data[<<1>>] = <<7>>
    /\ container[<<1>>] = <<7>>
    /\ nPhysOpen = 2
    /\ opened

----------------------------------------------------------------------------
(* List depends on what the store holds only. *)

\* The two stores hold the same keys with the same values.
SameEntries(d, c) ==
    /\ LiveKeys(d) = LiveKeys(c)
    /\ \A k \in LiveKeys(d) : d[k] = c[k]

\* C35: a DiskStore and a MemoryStore that hold the same entries return the
\* same List(prefix, limit), whatever calls wrote, overwrote and deleted
\* the entries of each and in whatever order the range loop over the map
\* gave the keys.
C35_ListDependsOnContentOnly ==
    [][\A prefix \in {<<>>, <<1>>}, limit \in {0, 1, 2} :
          PairList(prefix, limit) /\ SameEntries(data, container) =>
              /\ res'[1].err = ""
              /\ mres' = res'[1]]_vars

\* Both stores hold the keys 1 and 2 after two writes to the DiskStore and
\* three to the MemoryStore; the range loop gave the keys in descending
\* order and both lists have the entries in ascending order.
C35_Witness ==
    /\ nOps = 6
    /\ nOpened = 4
    /\ SameEntries(data, container)
    /\ scan[1] = <<<<2>>, <<1>>>>
    /\ mres = res[1]
    /\ res[1] = Result("List", "", <<[Key |-> <<1>>, Value |-> <<7>>],
                                     [Key |-> <<2>>, Value |-> <<7>>]>>)

----------------------------------------------------------------------------
(* What SerializedStore.Set gives to its backend. *)

\* C36: a Set made through the SerializedStore, of any value and with
\* either serializer, either fails in the serializer or hands the backend
\* the bytes the serializer made, which the backend stores: the backend's
\* error for a value of an unsupported type is never returned.
C36_BackendGetsBytes ==
    [][scall'.kind = "Set" /\ serializer' = serializer =>
         /\ scall'.err \in {"", "failed to serialize value"}
         /\ mres'.err # "unsupported value type"
         /\ (scall'.err = "" =>
                /\ mres' = Result("Set", "", Nil)
                /\ container'[scall'.key] =
                       Serialize(serializer, scall'.arg).bytes)]_vars

\* A Go int was set through the store bound to the string serializer, and
\* the MemoryStore holds its digits.
C36_Witness ==
    /\ serializer = "string"
    /\ scall = SerCall("Set", <<1>>, GoInt(42), "", GoNil)
    /\ mres = Result("Set", "", Nil)
    /\ container[<<1>>] = <<52, 50>>

----------------------------------------------------------------------------
(* A Set whose value the serializer refuses. *)

\* C37: when the serializer fails in the Set of a SerializedStore, the
\* backend is not called: every store is as it was, with its entries, and
\* a DiskStore backend is not opened, keeps its refCount, and its file is
\* not touched.
C37_FailedSerializeLeavesStore ==
    [][\A t \in Threads :
          KVCall(t) /\ res'[t].err = "failed to serialize value" =>
              /\ stores' = stores
              /\ data' = data
              /\ bucket' = bucket]_vars

\* The Set of a NaN was refused by the JSON serializer of a store with the
\* disk backend, which no operation has opened so far.
C37_Witness ==
    /\ rmStore # 0
    /\ kvs[1].store = rmStore
    /\ stores[rmStore].backend = "disk"
    /\ stores[rmStore].ser = "json"
    /\ res[1] = Result("Set", "failed to serialize value", GoNil)
    /\ ~stores[rmStore].opened
    /\ stores[rmStore].refCount = 0
    /\ stores[rmStore].handle = "zero"
    /\ ~bucket

----------------------------------------------------------------------------
(* The promises of the KV methods. *)

\* The promise was settled exactly once.
SettledOnce(p) == p.resolved + p.rejected = 1

\* C38: the goroutine of a KV method calls exactly one of reject and
\* resolve, once, whether k.store is nil, the store's call returned an
\* error, or it succeeded; and the promise of every call made on a KV
\* instance is rejected when the store returned an error and resolved
\* otherwise.
C38_PromiseSettledOnce ==
    /\ [](\A storeIsNil \in BOOLEAN, err \in {"", "key not found"} :
            /\ SettledOnce(KVSettle(storeIsNil, err))
            /\ (KVSettle(storeIsNil, err).rejected = 1 <=> storeIsNil \/ err # ""))
    /\ [][\A t \in Threads :
            KVCall(t) =>
                /\ SettledOnce(promise'[t])
                /\ (promise'[t].rejected = 1 <=> res'[t].err # "")]_vars

\* The promise of VU 1's Get was rejected, no key being there, and the
\* promise of VU 2's Set was resolved.
C38_Witness ==
    /\ res[1] = Result("Get", "key not found", GoNil)
    /\ promise[1] = [resolved |-> 0, rejected |-> 1]
    /\ res[2].kind = "Set"
    /\ res[2].err = ""
    /\ promise[2] = [resolved |-> 1, rejected |-> 0]

----------------------------------------------------------------------------
(* OpenKv when the shared store is there. *)

\* C39: a call of OpenKv that found RootModule.store set, whatever its
\* options, leaves RootModule.store and every store (its backend and its
\* serializer) as they are, and the KV it returns has the store that the
\* call found.
C39_LaterOpenKvKeepsStore ==
    [][\A t \in Threads :
          OpenKvNewKV(t) /\ seen[t] # 0 =>
              /\ rmStore' = rmStore
              /\ stores' = stores
              /\ kvs'[t].store = seen[t]]_vars

=============================================================================
